---- MODULE Spec2Model ----
(***************************************************************************)
(* Onboard control software of the simulated spacecraft (satellite_ocs):   *)
(* the priority telemetry buffer, the sensor ingress channel, the ingest   *)
(* task, the batcher and the downlink visibility-window state machine.     *)
(*                                                                         *)
(* Two specifications share the variables:                                 *)
(*   SpecBuffer  the BufferHandle object alone, driven by arbitrary        *)
(*               push / pop_many calls (its methods are public);           *)
(*   Spec        the running pipeline: sensors -> CHANNEL -> ingest ->     *)
(*               BUFFER -> batcher -> socket, gated by the downlink FSM,   *)
(*               with the visibility task and a clock in milliseconds.     *)
(***************************************************************************)
EXTENDS Integers, Sequences, FiniteSets, TLC

(***************************************************************************)
(* Bounds of the model                                                     *)
(***************************************************************************)
\* largest capacity BufferHandle::new is called with in SpecBuffer
MaxCap == 3
\* number of push calls the driver of SpecBuffer makes
MaxPush == 5
\* largest argument the driver of SpecBuffer passes to pop_many
MaxPop == 3
\* readings the ingest task pushes while the batcher pops
MaxIngest == 4
\* largest --max-batch the pipeline is started with (cfg.max_batch)
MaxBatch == 1
\* readings the three sensors produce in a run, all together
MaxReadings == 2
\* slots of the sensor ingress channel: mpsc::channel(1024), scaled down
ChanCap == 1
\* last millisecond of the clock
MaxNow == 6
\* last millisecond of the clock of SpecLink
MaxLinkNow == 42
\* releases of antenna_alignment after which the scheduler, once out of
\* work, is no longer followed
MaxJobs == 4
\* thermal signals sent on PREEMPT_CH and sleeps of the scheduler that end
\* late in a run, all together
MaxEvents == 2
\* slices by which such a sleep ends late (125 ms)
MaxLate == 250
\* slices before the end of an idle sleep at which a thermal signal may come
MaxEarly == 2
\* longest byte string given to Framer::frame
MaxData == 3
\* most bytes that follow a frame in the buffer given to Framer::deframe
MaxTrail == 2
\* longest buffer given to Framer::deframe as it came off the socket
MaxBuf == 5
\* largest header.protocol_version of a packet given to seal_to_bytes
MaxVersion == 2
\* largest header.sequence_number of a packet given to seal_to_bytes
MaxSeqNum == 1
\* largest key_id of a CryptoContext
MaxKeyId == 2
\* largest nonce gen_nonce draws (a 12-byte random value in the code)
MaxNonce == 1
\* faults the injector injects before it is no longer followed
MaxFaults == 2
\* latest millisecond after the injector's start at which the sensor tasks
\* make their priming tick
MaxPhase == 1
\* cycles of a sensor, all together, that are held up in tx.send(r).await
MaxStalls == 2
\* the same in SpecFaultLive
MaxLiveStalls == 1
\* the two lengths of such a hold-up, in ms
StallShort == 300
StallLong == 600
\* cycles of the thermal sensor followed in SpecThermal
MaxCycles == 6
\* a timer of the thermal sensor fires late in steps of JitterStep ms, up
\* to MaxJitter ms
JitterStep == 2
MaxJitter == 6
MaxCold == 51
MaxTemp == 151
\* ingress sends of the thermal sensor that fail in SpecThermal

(***************************************************************************)
(* Program constants                                                       *)
(***************************************************************************)
\* main: init_priority_buffer(cfg.max_batch * 8)
BUFFER_BATCHES == 8
\* pre_send: since_open > 5 ms without init is a missed window
INIT_MS == 5
\* pre_send: prep_ms > 30.0 is a late preparation
PREP_MS == 30
\* send: fill_pct >= 80.0 turns degraded mode on
DEGRADED_PCT == 80

(***************************************************************************)
(* shared_protocol::Priority and the bucket a priority is stored in        *)
(***************************************************************************)
Priority == {"Emergency", "Critical", "Important", "Normal"}

Min(a, b) == IF a <= b THEN a ELSE b

\* target_q of push: 0 = hi, 1 = im, 2 = lo
target_q(p) ==
    CASE p \in {"Emergency", "Critical"} -> 0
      [] p = "Important" -> 1
      [] OTHER -> 2

\* struct Inner after BufferHandle::new(capacity)
new(cap) == [capacity |-> cap, hi |-> <<>>, im |-> <<>>, lo |-> <<>>]

\* BufferHandle::len
len(g) == Len(g.hi) + Len(g.im) + Len(g.lo)

Accepted == [tag |-> "Accepted"]
Dropped(dp) == [tag |-> "Dropped", dropped_priority |-> dp, dropped_count |-> 1]

\* the eviction branch of push: drop from the lowest non-empty bucket
\* the eviction that does not say what it dropped
evict_silent(g) ==
    IF g.lo # <<>> THEN
        [g |-> [g EXCEPT !.lo = Tail(g.lo)], dropped |-> "None"]
    ELSE IF g.im # <<>> THEN
        [g |-> [g EXCEPT !.im = Tail(g.im)], dropped |-> "None"]
    ELSE IF g.hi # <<>> THEN
        [g |-> [g EXCEPT !.hi = Tail(g.hi)], dropped |-> "None"]
    ELSE
        [g |-> g, dropped |-> "None"]

evict(g) ==
    IF g.lo # <<>> THEN
        [g |-> [g EXCEPT !.lo = Tail(g.lo)], dropped |-> "Normal"]
    ELSE IF g.im # <<>> THEN
        [g |-> [g EXCEPT !.im = Tail(g.im)], dropped |-> "Important"]
    ELSE IF g.hi # <<>> THEN
        [g |-> [g EXCEPT !.hi = Tail(g.hi)], dropped |-> "Critical"]
    ELSE
        \* "Shouldn't happen; capacity says full but queues empty"
        [g |-> g, dropped |-> "None"]

\* BufferHandle::push: the buffer after the call and the InsertResult
push(g, r) ==
    LET total == len(g)
        e == IF total >= g.capacity THEN evict(g) ELSE [g |-> g, dropped |-> "None"]
        q == target_q(r.priority)
        g2 == CASE q = 0 -> [e.g EXCEPT !.hi = Append(@, r)]
                [] q = 1 -> [e.g EXCEPT !.im = Append(@, r)]
                [] OTHER -> [e.g EXCEPT !.lo = Append(@, r)]
    IN [g |-> g2,
        result |-> IF e.dropped # "None" THEN Dropped(e.dropped) ELSE Accepted]

\* the closure take_from of pop_many: pop from the front while need > 0
RECURSIVE take_from(_, _, _)
take_from(q, need, out) ==
    IF need > 0 /\ q # <<>>
    THEN take_from(Tail(q), need - 1, Append(out, Head(q)))
    ELSE [q |-> q, need |-> need, out |-> out]

\* pop_many draining the buckets in the order lo, im, hi
pop_many_lo_first(g, n) ==
    LET a == take_from(g.lo, n, <<>>)
        b == IF a.need > 0 THEN take_from(g.im, a.need, a.out) ELSE [q |-> g.im, need |-> a.need, out |-> a.out]
        c == IF b.need > 0 THEN take_from(g.hi, b.need, b.out) ELSE [q |-> g.hi, need |-> b.need, out |-> b.out]
    IN [g |-> [g EXCEPT !.hi = c.q, !.im = b.q, !.lo = a.q], out |-> c.out]

\* pop_many that returns everything stored
pop_many_all(g, n) ==
    [g |-> [g EXCEPT !.hi = <<>>, !.im = <<>>, !.lo = <<>>], out |-> g.hi \o g.im \o g.lo]

\* BufferHandle::pop_many: the buffer after the call and the Vec returned
pop_many(g, n) ==
    LET a == take_from(g.hi, n, <<>>)
        b == IF a.need > 0 THEN take_from(g.im, a.need, a.out) ELSE [q |-> g.im, need |-> a.need, out |-> a.out]
        c == IF b.need > 0 THEN take_from(g.lo, b.need, b.out) ELSE [q |-> g.lo, need |-> b.need, out |-> b.out]
    IN [g |-> [g EXCEPT !.hi = a.q, !.im = b.q, !.lo = c.q], out |-> c.out]


\* BufferHandle::fill_pct, as the whole percent below the f64 the code
\* computes (the code only compares it with 80.0)
fill_pct_of(g) ==
    IF g.capacity = 0 THEN 0 ELSE (len(g) * 100) \div g.capacity

(***************************************************************************)
(* Downlink: LinkState and its transitions                                 *)
(***************************************************************************)
Closed == [state |-> "Closed"]
Opening(o, i) == [state |-> "Opening", opened_at |-> o, init_started |-> i]
Ready(o, r, d) == [state |-> "Ready", opened_at |-> o, ready_at |-> r, degraded |-> d]

DownlinkEvent == {"NotInWindow", "MissedInit", "Ready", "ReadyPrepLate", "ReadyDegraded"}

\* open that marks the init as started
open_init_started(l, t) == Opening(t, TRUE)

\* Downlink::open at time t
open(l, t) == Opening(t, FALSE)

\* Downlink::close
close(l) == Closed

\* pre_send that keeps the window Opening after a missed init
pre_send_keeps_opening(l, t) ==
    CASE l.state = "Closed" -> [link |-> l, event |-> "NotInWindow"]
      [] l.state = "Opening" ->
            IF t - l.opened_at > INIT_MS /\ ~l.init_started
            THEN [link |-> l, event |-> "MissedInit"]
            ELSE [link |-> Ready(l.opened_at, t, FALSE),
                  event |-> IF t - l.opened_at > PREP_MS THEN "ReadyPrepLate" ELSE "Ready"]
      [] OTHER ->
            [link |-> l,
             event |-> IF l.ready_at - l.opened_at > PREP_MS THEN "ReadyPrepLate"
                       ELSE IF l.degraded THEN "ReadyDegraded" ELSE "Ready"]

\* pre_send that starts the init of a closed link
pre_send_opens_closed(l, t) ==
    CASE l.state = "Closed" -> [link |-> Opening(t, TRUE), event |-> "NotInWindow"]
      [] l.state = "Opening" ->
            IF t - l.opened_at > INIT_MS /\ ~l.init_started
            THEN [link |-> Closed, event |-> "MissedInit"]
            ELSE [link |-> Ready(l.opened_at, t, FALSE),
                  event |-> IF t - l.opened_at > PREP_MS THEN "ReadyPrepLate" ELSE "Ready"]
      [] OTHER ->
            [link |-> l,
             event |-> IF l.ready_at - l.opened_at > PREP_MS THEN "ReadyPrepLate"
                       ELSE IF l.degraded THEN "ReadyDegraded" ELSE "Ready"]

\* pre_send that stamps ready_at with opened_at
pre_send_ready_at_open(l, t) ==
    CASE l.state = "Closed" -> [link |-> l, event |-> "NotInWindow"]
      [] l.state = "Opening" ->
            IF t - l.opened_at > INIT_MS /\ ~l.init_started
            THEN [link |-> Closed, event |-> "MissedInit"]
            ELSE [link |-> Ready(l.opened_at, l.opened_at, FALSE),
                  event |-> IF t - l.opened_at > PREP_MS THEN "ReadyPrepLate" ELSE "Ready"]
      [] OTHER ->
            [link |-> l,
             event |-> IF l.ready_at - l.opened_at > PREP_MS THEN "ReadyPrepLate"
                       ELSE IF l.degraded THEN "ReadyDegraded" ELSE "Ready"]

\* pre_send that measures the preparation of a Ready link up to now
pre_send_prep_to_now(l, t) ==
    CASE l.state = "Closed" -> [link |-> l, event |-> "NotInWindow"]
      [] l.state = "Opening" ->
            IF t - l.opened_at > INIT_MS /\ ~l.init_started
            THEN [link |-> Closed, event |-> "MissedInit"]
            ELSE [link |-> Ready(l.opened_at, t, FALSE),
                  event |-> IF t - l.opened_at > PREP_MS THEN "ReadyPrepLate" ELSE "Ready"]
      [] OTHER ->
            [link |-> l,
             event |-> IF t - l.opened_at > PREP_MS THEN "ReadyPrepLate"
                       ELSE IF l.degraded THEN "ReadyDegraded" ELSE "Ready"]

\* Downlink::pre_send at time t: the state after the call and the event
pre_send(l, t) ==
    CASE l.state = "Closed" -> [link |-> l, event |-> "NotInWindow"]
      [] l.state = "Opening" ->
            IF t - l.opened_at > INIT_MS /\ ~l.init_started
            THEN [link |-> Closed, event |-> "MissedInit"]
            ELSE [link |-> Ready(l.opened_at, t, FALSE),
                  event |-> IF t - l.opened_at > PREP_MS THEN "ReadyPrepLate" ELSE "Ready"]
      [] OTHER ->
            [link |-> l,
             event |-> IF l.ready_at - l.opened_at > PREP_MS THEN "ReadyPrepLate"
                       ELSE IF l.degraded THEN "ReadyDegraded" ELSE "Ready"]

\* set_degraded that builds the Ready state anew, ready_at included
set_degraded_restamps(l, on) ==
    IF l.state = "Ready" THEN Ready(l.opened_at, l.opened_at, on) ELSE l

\* Downlink::set_degraded
set_degraded(l, on) ==
    IF l.state = "Ready" THEN Ready(l.opened_at, l.ready_at, on) ELSE l

(***************************************************************************)
(* Batcher                                                                 *)
(***************************************************************************)
\* the arms of send's match on the gate, with NotInWindow clearing the batch
match_gate_niw_clears(ev) ==
    CASE ev = "MissedInit" -> "log_clear_return"
      [] ev = "NotInWindow" -> "log_clear_return"
      [] OTHER -> "seal_send"

\* the arms of send's match on the gate, with NotInWindow falling through
match_gate_niw_sends(ev) ==
    CASE ev = "MissedInit" -> "log_clear_return"
      [] ev = "NotInWindow" -> "seal_send"
      [] OTHER -> "seal_send"

\* the arms of send's match on the gate
match_gate(ev) ==
    CASE ev = "MissedInit" -> "log_clear_return"
      [] ev = "NotInWindow" -> "log_return"
      [] OTHER -> "seal_send"

\* the degraded mode trigger with the full buffer as its threshold
degraded_on_full(pct) == pct >= 100

\* send's degraded mode trigger: the argument it passes to set_degraded
degraded_on(pct) == pct >= DEGRADED_PCT

(***************************************************************************)
(* Sensors                                                                 *)
(***************************************************************************)
\* sensor_id of the thermal, power and attitude sensor
Sensors == {1, 2, 3}

\* the priorities create_reading can give the values each sensor simulates:
\* thermal 60..67.8 C is important; power is normal, important or critical
\* (critical also when corrupted by a fault); attitude error is below 5.2
SensorPriorities(s) ==
    CASE s = 1 -> {"Important"}
      [] s = 2 -> {"Normal", "Important", "Critical"}
      [] OTHER -> {"Normal", "Important"}

SetOf(q) == {q[i] : i \in 1..Len(q)}

(***************************************************************************)
(* RM scheduler (scheduler/rm.rs). Instants and durations are counted in   *)
(* slices of SLICE_MS = 0.5 ms; every duration of the code is a whole      *)
(* number of slices.                                                       *)
(***************************************************************************)
\* const SLICE_MS: f64 = 0.5, as slices per millisecond
SLICES_PER_MS == 2
\* spawn_thermal_job: deadline now + 20 ms
THERMAL_DEADLINE_MS == 20
\* spawn_thermal_job: remaining_ms 2.0
THERMAL_WCET_MS == 2
\* mpsc::channel::<()>(16), the preemption channel
PREEMPT_CAP == 16
\* usize::MAX, the synthetic task index of thermal_control; the indices of
\* the task table, 0..2 in the code, are 1..3 here
USIZE_MAX == 0

Ms(x) == x * SLICES_PER_MS

\* the three RtTask::new calls of spawn_rm
TaskTable ==
    << [name |-> "antenna_alignment", period_ms |-> 50,   wcet_ms |-> 3, rm_priority |-> 1],
       [name |-> "data_compression",  period_ms |-> 100,  wcet_ms |-> 6, rm_priority |-> 2],
       [name |-> "health_monitor",    period_ms |-> 1000, wcet_ms |-> 2, rm_priority |-> 3] >>

TaskIdx == 1..Len(TaskTable)

\* RtTask::new at instant t: the fields that change at run time, and the
\* period and relative deadline (deadline: p) it stores
RtTask_new(i, t) ==
    [period |-> Ms(TaskTable[i].period_ms),
     deadline |-> Ms(TaskTable[i].period_ms),
     next_release |-> t + Ms(TaskTable[i].period_ms),
     next_deadline |-> t + Ms(TaskTable[i].period_ms),
     seq |-> 0]

NoJob == [task_idx |-> -1, release |-> 0, deadline |-> 0, seq |-> 0,
          remaining_ms |-> 0, preemptions |-> 0]

\* Ord::cmp on two integers
cmp_int(a, b) == IF a < b THEN "Less" ELSE IF a > b THEN "Greater" ELSE "Equal"

\* a comparator that orders by earliest deadline alone
cmp_release_by_deadline(a, b) == cmp_int(a.deadline, b.deadline)

\* the comparator of release_due: tasks[a.task_idx].rm_priority, then deadline
cmp_release(a, b) ==
    LET pa == TaskTable[a.task_idx].rm_priority
        pb == TaskTable[b.task_idx].rm_priority
    IN IF cmp_int(pa, pb) = "Equal" THEN cmp_int(a.deadline, b.deadline)
       ELSE cmp_int(pa, pb)

\* the comparator of spawn_thermal_job: thermal first, everything else equal
cmp_thermal(a, b) ==
    IF a.task_idx = USIZE_MAX /\ b.task_idx # USIZE_MAX THEN "Less"
    ELSE IF b.task_idx = USIZE_MAX /\ a.task_idx # USIZE_MAX THEN "Greater"
    ELSE "Equal"

\* the comparator of the preemption branch: thermal first, then RM priority
\* with thermal counting as 0, then deadline
cmp_preempt(a, b) ==
    IF a.task_idx = USIZE_MAX /\ b.task_idx # USIZE_MAX THEN "Less"
    ELSE IF b.task_idx = USIZE_MAX /\ a.task_idx # USIZE_MAX THEN "Greater"
    ELSE LET pa == IF a.task_idx = USIZE_MAX THEN 0 ELSE TaskTable[a.task_idx].rm_priority
             pb == IF b.task_idx = USIZE_MAX THEN 0 ELSE TaskTable[b.task_idx].rm_priority
         IN IF cmp_int(pa, pb) = "Equal" THEN cmp_int(a.deadline, b.deadline)
            ELSE cmp_int(pa, pb)

cmp(kind, a, b) ==
    CASE kind = "release" -> cmp_release(a, b)
      [] kind = "thermal" -> cmp_thermal(a, b)
      [] OTHER -> cmp_preempt(a, b)

\* slice::sort_by is stable: x goes behind every element that is not greater
RECURSIVE insert(_, _, _)
insert(kind, q, x) ==
    IF q = <<>> THEN <<x>>
    ELSE IF cmp(kind, x, Head(q)) = "Less" THEN <<x>> \o q
    ELSE <<Head(q)>> \o insert(kind, Tail(q), x)

RECURSIVE sort_by(_, _)
sort_by(kind, q) ==
    IF q = <<>> THEN <<>>
    ELSE insert(kind, sort_by(kind, SubSeq(q, 1, Len(q) - 1)), q[Len(q)])

\* a release that stamps the job with the instant t at which it is observed
release_job_at_now(tk, idx, t) ==
    [task_idx |-> idx,
     release |-> t,
     deadline |-> t + tk.deadline,
     seq |-> tk.seq + 1,
     remaining_ms |-> Ms(TaskTable[idx].wcet_ms),
     preemptions |-> 0]

\* release_due: the Job of task idx (tk) released when observed at instant t;
\* seq is a u64 and wraps after 2^64 releases, which no run reaches
release_job(tk, idx, t) ==
    [task_idx |-> idx,
     release |-> tk.next_release,
     deadline |-> tk.next_deadline,
     seq |-> tk.seq + 1,
     remaining_ms |-> Ms(TaskTable[idx].wcet_ms),
     preemptions |-> 0]

\* release_due: the task after one release
release_advance(tk) ==
    [tk EXCEPT !.seq = @ + 1,
               !.next_release = @ + tk.period,
               !.next_deadline = @ + tk.deadline]

\* the for loop of release_due, from task idx on; rel collects, for the
\* history, each job released with the task as it was before
RECURSIVE release_loop(_, _, _, _, _)
release_loop(ts, rq, t, idx, rel) ==
    IF idx > Len(ts) THEN [tasks |-> ts, ready |-> rq, released |-> rel]
    ELSE IF t >= ts[idx].next_release THEN
        release_loop([ts EXCEPT ![idx] = release_advance(ts[idx])],
                     Append(rq, release_job(ts[idx], idx, t)), t, idx + 1,
                     Append(rel, [job |-> release_job(ts[idx], idx, t),
                                  task |-> ts[idx], at |-> t]))
    ELSE release_loop(ts, rq, t, idx + 1, rel)

has_thermal(q) == \E k \in 1..Len(q) : q[k].task_idx = USIZE_MAX

\* release_due at instant t. Its comparator reads tasks[a.task_idx]; with a
\* thermal job among two or more ready jobs that index is out of bounds and
\* the scheduler task panics.
release_due(ts, rq, t) ==
    LET r == release_loop(ts, rq, t, 1, <<>>)
        oob == Len(r.ready) >= 2 /\ has_thermal(r.ready)
    IN [tasks |-> r.tasks,
        ready |-> IF oob THEN r.ready ELSE sort_by("release", r.ready),
        released |-> r.released,
        panic |-> oob]

thermal_job(t) ==
    [task_idx |-> USIZE_MAX,
     release |-> t,
     deadline |-> t + Ms(THERMAL_DEADLINE_MS),
     seq |-> 0,
     remaining_ms |-> Ms(THERMAL_WCET_MS),
     preemptions |-> 0]

\* spawn_thermal_job that leaves the new job at the back of the queue
spawn_thermal_job_at_back(rq, t) == Append(rq, thermal_job(t))

\* spawn_thermal_job at instant t
spawn_thermal_job(rq, t) == sort_by("thermal", Append(rq, thermal_job(t)))

\* higher_prio that lets a job of equal priority preempt
higher_prio_or_equal(next, j, sit) ==
    IF next.task_idx = USIZE_MAX THEN "true"
    ELSE IF sit THEN "false"
    ELSE IF j.task_idx = USIZE_MAX THEN "panic"
    ELSE IF TaskTable[next.task_idx].rm_priority <= TaskTable[j.task_idx].rm_priority
         THEN "true" ELSE "false"

\* the preemption branch with the counter left alone
put_back_uncounted(j) == j

\* the preemption branch: job.preemptions += 1 (a u32), before ready.push(job)
put_back(j) == [j EXCEPT !.preemptions = @ + 1]

\* higher_prio of the scheduling check, for the head next of the ready queue,
\* the job j that has the processor and the flag spec_is_thermal; "panic" is
\* tasks[job.task_idx] read with the sentinel index
higher_prio(next, j, sit) ==
    IF next.task_idx = USIZE_MAX THEN "true"
    ELSE IF sit THEN "false"
    ELSE IF j.task_idx = USIZE_MAX THEN "panic"
    ELSE IF TaskTable[next.task_idx].rm_priority < TaskTable[j.task_idx].rm_priority
         THEN "true" ELSE "false"

\* The scheduling check made after a slice when ran_ms % 1.0 < SLICE_MS, at
\* instant t with pend signals waiting: release_due, try_recv and
\* spawn_thermal_job, then the preemption branch. queue is the ready queue
\* as it is when its head is taken, preempted the job pushed back.
sched_check(ts, rq, j, sit, t, pend) ==
    LET rd == release_due(ts, rq, t)
        got == pend > 0
        rq2 == IF rd.panic THEN rd.ready
               ELSE IF got THEN spawn_thermal_job(rd.ready, t) ELSE rd.ready
        hp == IF rd.panic THEN "panic"
              ELSE IF rq2 = <<>> THEN "false"
              ELSE higher_prio(Head(rq2), j, sit)
        q == IF hp = "true" THEN sort_by("preempt", Append(rq2, put_back(j))) ELSE <<>>
    IN [tasks |-> rd.tasks,
        ready |-> IF hp = "true" THEN Tail(q) ELSE rq2,
        job |-> IF hp = "true" THEN Head(q) ELSE j,
        rx |-> IF got /\ ~rd.panic THEN pend - 1 ELSE pend,
        panic |-> hp = "panic",
        released |-> rd.released,
        injected |-> got /\ ~rd.panic,
        preempted |-> IF hp = "true" THEN put_back(j) ELSE NoJob,
        queue |-> q,
        next |-> IF rd.panic \/ rq2 = <<>> THEN NoJob ELSE Head(rq2)]

\* step 6: completion_delay_ms of a job finished at instant finish
completion_delay(j, finish) == IF finish > j.deadline THEN finish - j.deadline ELSE 0

\* the row given to log_sched_event, and whether warn!("deadline violation")
\* follows it
outcome_row(name, j, sd, ran, ddur, finish) ==
    [task |-> name,
     seq |-> j.seq,
     start_delay_ms |-> sd,
     completion_delay_ms |-> completion_delay(j, finish),
     runtime_ms |-> ran,
     preemptions |-> j.preemptions,
     deadline_ms |-> ddur,
     violation |-> completion_delay(j, finish) > 0]

NoRow == [task |-> "none", seq |-> 0, start_delay_ms |-> 0, completion_delay_ms |-> 0,
          runtime_ms |-> 0, preemptions |-> 0, deadline_ms |-> 0, violation |-> FALSE]

\* what a step of the scheduler did: the jobs it released; whether it made a
\* scheduling check, the job that had the processor when its slice began
\* and the flag spec_is_thermal; whether it injected a thermal job; the job
\* it pushed back; the queue whose head it took and the job it took; the
\* job it completed, with the instant
NoEvent ==
    [released |-> <<>>, checked |-> FALSE, running |-> NoJob, was_thermal |-> FALSE,
     injected |-> FALSE, preempted |-> NoJob, queue |-> <<>>, dispatched |-> NoJob,
     completed |-> NoJob, finish |-> 0, next |-> NoJob]

\* min over tasks of next_release: the instant the idle path sleeps until
sleep_until(ts) ==
    CHOOSE t \in {ts[i].next_release : i \in DOMAIN ts} :
        \A i \in DOMAIN ts : t <= ts[i].next_release

(***************************************************************************)
(* Length-prefixed framing (net/framing.rs). A byte is a number 0..255;    *)
(* the byte strings tried are over ByteSet. data.len() as u32 truncates    *)
(* only from 2^32 bytes on, a length no buffer here reaches.               *)
(***************************************************************************)
ByteSet == {0, 1, 2}

\* the byte strings over ByteSet of length 0..n
ByteSeqs(n) == UNION {[1..k -> ByteSet] : k \in 0..n}

\* u32::to_be_bytes
to_be_bytes(n) ==
    <<(n \div 16777216) % 256, (n \div 65536) % 256, (n \div 256) % 256, n % 256>>

\* u32::from_be_bytes([buf[0], buf[1], buf[2], buf[3]])
from_be_bytes(b) == b[1] * 16777216 + b[2] * 65536 + b[3] * 256 + b[4]

FrameOk(bytes) == [tag |-> "Ok", bytes |-> bytes]
FrameErr(msg) == [tag |-> msg, bytes |-> <<>>]
FrameNone == [tag |-> "None", bytes |-> <<>>]

\* Framer::frame
frame(data) == to_be_bytes(Len(data)) \o data

\* Framer::deframe that asks for the payload bytes only, not 4 + len
deframe_payload_len(b) ==
    IF Len(b) < 4 THEN FrameErr("short")
    ELSE IF Len(b) < from_be_bytes(b) THEN FrameErr("incomplete")
    ELSE FrameOk(SubSeq(b, 1, Min(Len(b), 4 + from_be_bytes(b))))

\* Framer::deframe
deframe(b) ==
    IF Len(b) < 4 THEN FrameErr("short")
    ELSE IF Len(b) < 4 + from_be_bytes(b) THEN FrameErr("incomplete")
    ELSE FrameOk(SubSeq(b, 1, 4 + from_be_bytes(b)))

(***************************************************************************)
(* AEAD envelope (shared_protocol: CryptoContext). ChaCha20-Poly1305 is    *)
(* taken as a perfect AEAD: a ciphertext is the term of what was           *)
(* encrypted, and decrypt succeeds exactly on an unchanged ciphertext      *)
(* under the same key, nonce and AAD. A JSON text is the value it holds    *)
(* together with the set of places where it no longer deserializes.        *)
(***************************************************************************)
\* pub const PROTOCOL_VERSION: u16 = 1
PROTOCOL_VERSION == 1

Versions == 1..MaxVersion
PacketTypes == {"telemetry", "command"}
Sources == {"satellite", "ground_control"}
SeqNums == 0..MaxSeqNum
KeyIds == 1..MaxKeyId
Keys == {"key_a", "key_b"}
Nonces == 0..MaxNonce
\* a payload whose numbers are finite, one holding a NaN or an infinity,
\* one whose serialization is longer than MAX_PACKET_SIZE
Payloads == {"finite", "non_finite", "oversize"}

\* the CommunicationPacket values given to seal_to_bytes
Packets ==
    [header : [protocol_version : Versions, packet_type : PacketTypes,
               sequence_number : SeqNums, source : Sources, destination : Sources],
     payload : Payloads]

\* CryptoContext::new
CryptoContext_new(key_id, key) == [key_id |-> key_id, key |-> key]

Contexts == {CryptoContext_new(i, k) : i \in KeyIds, k \in Keys}

\* serde_json::to_vec(packet): a NaN or an infinity is written as null
to_vec(packet) ==
    [header |-> packet.header,
     payload |-> IF packet.payload = "non_finite" THEN "null" ELSE packet.payload]

\* serialized.len() > MAX_PACKET_SIZE, frame_bytes.len() > MAX_PACKET_SIZE
too_large(serialized) == serialized.payload = "oversize"

\* serde_json::from_slice::<CommunicationPacket>: null is not an f64
from_slice(plaintext) ==
    IF plaintext.payload = "null"
    THEN [ok |-> FALSE, packet |-> plaintext]
    ELSE [ok |-> TRUE, packet |-> [header |-> plaintext.header, payload |-> plaintext.payload]]

\* cipher.encrypt(nonce, Payload {msg, aad})
encrypt(key, nonce, msg, aad) ==
    [key |-> key, nonce |-> nonce, msg |-> msg, aad |-> aad, intact |-> TRUE]

\* a decryption that does not authenticate the associated data
decrypt_ignores_aad(key, nonce, ciphertext, aad) ==
    [ok |-> /\ ciphertext.intact
            /\ ciphertext.key = key
            /\ ciphertext.nonce = nonce,
     plaintext |-> ciphertext.msg]

\* cipher.decrypt(nonce, Payload {msg: ciphertext, aad})
decrypt(key, nonce, ciphertext, aad) ==
    [ok |-> /\ ciphertext.intact
            /\ ciphertext.key = key
            /\ ciphertext.nonce = nonce
            /\ ciphertext.aad = aad,
     plaintext |-> ciphertext.msg]

\* seal_to_bytes: the ClearHeader it builds
clear_header(ctx, packet, nonce) ==
    [protocol_version |-> PROTOCOL_VERSION,
     packet_type |-> packet.header.packet_type,
     sequence_number |-> packet.header.sequence_number,
     source |-> packet.header.source,
     destination |-> packet.header.destination,
     key_id |-> ctx.key_id,
     nonce |-> nonce]

NoFrame == [header |-> clear_header(CryptoContext_new(0, "none"),
                                    [header |-> [protocol_version |-> 0,
                                                 packet_type |-> "none",
                                                 sequence_number |-> 0,
                                                 source |-> "none",
                                                 destination |-> "none"],
                                     payload |-> "none"], 0),
            ciphertext |-> encrypt("none", 0, "none", "none")]

\* a byte buffer that holds a length prefix (prefix), as many bytes as the
\* prefix declares (complete) and the JSON text of an EncryptedFrame, which
\* fails to deserialize at the places in unparsed
NoBytes == [prefix |-> FALSE, complete |-> FALSE, unparsed |-> {}, frame |-> NoFrame]

SealErr(msg) == [tag |-> msg, bytes |-> NoBytes]

\* CryptoContext::seal_to_bytes, with the nonce gen_nonce returned
seal_to_bytes(ctx, packet, nonce) ==
    IF too_large(to_vec(packet)) THEN SealErr("Packet too large before encryption")
    ELSE [tag |-> "Ok",
          bytes |-> [prefix |-> TRUE, complete |-> TRUE, unparsed |-> {},
                     frame |-> [header |-> clear_header(ctx, packet, nonce),
                                ciphertext |-> encrypt(ctx.key, nonce, to_vec(packet),
                                                       clear_header(ctx, packet, nonce))]]]

OpenErr(msg, dec) == [tag |-> msg, packet |-> "none", decrypted |-> dec]
NotOpened == OpenErr("None", FALSE)

\* the header comparison at the end of open_from_bytes
header_mismatch(packet, header) ==
    \/ packet.header.protocol_version # header.protocol_version
    \/ packet.header.packet_type # header.packet_type
    \/ packet.header.sequence_number # header.sequence_number
    \/ packet.header.source # header.source
    \/ packet.header.destination # header.destination

\* open_from_bytes from the decryption on; decrypted tells that
\* cipher.decrypt was called
open_decrypt(ctx, ef) ==
    IF ~decrypt(ctx.key, ef.header.nonce, ef.ciphertext, ef.header).ok
    THEN OpenErr("authentication/decryption failed", TRUE)
    ELSE IF ~from_slice(ef.ciphertext.msg).ok
    THEN OpenErr("packet deserialization", TRUE)
    ELSE IF header_mismatch(from_slice(ef.ciphertext.msg).packet, ef.header)
    THEN OpenErr("header mismatch between clear header and decrypted packet", TRUE)
    ELSE [tag |-> "Ok", packet |-> from_slice(ef.ciphertext.msg).packet,
          decrypted |-> TRUE]

\* open_from_bytes that compares the key ids only once decryption failed
open_from_bytes_key_id_late(ctx, buf) ==
    IF ~buf.prefix \/ ~buf.complete THEN OpenErr("insufficient data", FALSE)
    ELSE IF buf.unparsed # {} THEN OpenErr("frame deserialization", FALSE)
    ELSE IF open_decrypt(ctx, buf.frame).tag = "authentication/decryption failed"
            /\ buf.frame.header.key_id # ctx.key_id
    THEN OpenErr("key id mismatch", TRUE)
    ELSE open_decrypt(ctx, buf.frame)

\* CryptoContext::open_from_bytes
open_from_bytes(ctx, buf) ==
    IF ~buf.prefix \/ ~buf.complete THEN OpenErr("insufficient data", FALSE)
    ELSE IF buf.unparsed # {} THEN OpenErr("frame deserialization", FALSE)
    ELSE IF buf.frame.header.key_id # ctx.key_id THEN OpenErr("key id mismatch", FALSE)
    ELSE open_decrypt(ctx, buf.frame)

(***************************************************************************)
(* ThermalSensor (shared_protocol/src/lib.rs). Temperatures are whole      *)
(* degrees Celsius.                                                        *)
(***************************************************************************)
\* ThermalSensor::new: critical_threshold: 80.0, emergency_threshold: 85.0
CRITICAL_THRESHOLD == 80
EMERGENCY_THRESHOLD == 85
\* else if temperature_celsius >= 60.0
WARNING_C == 60
\* (-50.0..150.0), as degrees below and above zero
QUALITY_BELOW == 50
QUALITY_END == 150

ThermalSensor_new(sensor_id) ==
    [sensor_id |-> sensor_id, critical_threshold |-> CRITICAL_THRESHOLD,
     emergency_threshold |-> EMERGENCY_THRESHOLD, sampling_interval_ms |-> 50]

\* the fields of ThermalSensor are pub: the sensors create_reading is
\* tried on
ThermalSensors ==
    {[ThermalSensor_new(1) EXCEPT !.critical_threshold = c, !.emergency_threshold = e] :
        c \in {CRITICAL_THRESHOLD, EMERGENCY_THRESHOLD},
        e \in {CRITICAL_THRESHOLD, EMERGENCY_THRESHOLD}}

Temperatures == (0 - MaxCold)..MaxTemp

\* (-50.0..150.0).contains(&t): a half-open range
range_contains(t) == 0 - QUALITY_BELOW <= t /\ t < QUALITY_END

\* ThermalSensor::create_reading
create_reading(self, temperature_celsius, sequence_number) ==
    [sensor_id |-> self.sensor_id,
     sensor_type |-> "Thermal",
     sequence_number |-> sequence_number,
     value1 |-> temperature_celsius,
     value2 |-> self.critical_threshold,
     value3 |-> self.emergency_threshold,
     value4 |-> 0,
     priority |-> IF temperature_celsius >= self.emergency_threshold THEN "Emergency"
                  ELSE IF temperature_celsius >= self.critical_threshold THEN "Critical"
                  ELSE "Important",
     quality |-> IF range_contains(temperature_celsius) THEN "Good" ELSE "Invalid",
     status |-> IF temperature_celsius >= self.emergency_threshold THEN "Emergency"
                ELSE IF temperature_celsius >= self.critical_threshold THEN "Critical"
                ELSE IF temperature_celsius >= WARNING_C THEN "Warning"
                ELSE "Normal"]

(***************************************************************************)
(* Fault bus: the sensor side (sensors/thermal.rs, power.rs, attitude.rs). *)
(* Instants are milliseconds since the injector was started. None is 0     *)
(* for a fault id and -1 for an instant.                                   *)
(***************************************************************************)
FSensors == {"thermal", "power", "attitude"}

\* ThermalSensor::new, PowerSensor::new, AttitudeSensor::new
sampling_interval_ms(s) ==
    CASE s = "thermal" -> 50
      [] s = "power" -> 100
      [] OTHER -> 200

\* the FaultEvent variant each sensor reacts to
fault_kind(s) ==
    CASE s = "thermal" -> "ThermalDelay"
      [] s = "power" -> "PowerCorrupt"
      [] OTHER -> "AttitudePause"

\* tokio::time::interval: a tick polled more than 5 ms after its deadline
\* is a missed tick
MISSED_TICK_MS == 5
\* mpsc::channel::<EmergencyData>(32)
EMER_CAP == 32
\* consecutive_misses > 3
MISS_LIMIT == 3
\* (actual_ms - ideal_ms) > 1.0
MISS_MS == 1

NoInstant == -1
NoFault == 0

FaultEvent(kind, fault_id, extra_ms, for_ms, reason) ==
    [kind |-> kind, fault_id |-> fault_id, extra_ms |-> extra_ms, for_ms |-> for_ms,
     reason |-> reason]

FaultAck(fault_id, component, t) ==
    [fault_id |-> fault_id, component |-> component, recovered_ts_ms |-> t]

\* a sensor task as tokio::spawn leaves it, to make its priming tick at ph
sensor_spawned(ph) ==
    [pc |-> "spawned", wake |-> ph, due |-> ph, seq |-> 0, last_start |-> 0,
     cur_fault_id |-> NoFault, until |-> NoInstant, extra_delay_ms |-> 0,
     consecutive_misses |-> 0, start |-> NoInstant, send_ok |-> TRUE]

\* the Recover arm that acknowledges without comparing the fault ids
on_event_acks_any(s, st, ev, t) ==
    IF ev.kind = fault_kind(s)
    THEN [st |-> [st EXCEPT !.cur_fault_id = ev.fault_id, !.until = t + ev.for_ms,
                            !.extra_delay_ms = IF s = "thermal" THEN ev.extra_ms ELSE @],
          acks |-> <<>>]
    ELSE IF ev.kind = "Recover"
    THEN [st |-> [st EXCEPT !.cur_fault_id = NoFault, !.until = NoInstant,
                            !.extra_delay_ms = 0],
          acks |-> <<FaultAck(ev.fault_id, s, t)>>]
    ELSE [st |-> st, acks |-> <<>>]

\* one arm of the match on rx.try_recv(), at instant t: the sensor after the
\* event and the FaultAck it sent, if any
on_event(s, st, ev, t) ==
    IF ev.kind = fault_kind(s)
    THEN [st |-> [st EXCEPT !.cur_fault_id = ev.fault_id, !.until = t + ev.for_ms,
                            !.extra_delay_ms = IF s = "thermal" THEN ev.extra_ms ELSE @],
          acks |-> <<>>]
    ELSE IF ev.kind = "Recover" /\ st.cur_fault_id # NoFault
            /\ st.cur_fault_id = ev.fault_id
    THEN [st |-> [st EXCEPT !.cur_fault_id = NoFault, !.until = NoInstant,
                            !.extra_delay_ms = 0],
          acks |-> <<FaultAck(ev.fault_id, s, t)>>]
    ELSE [st |-> st, acks |-> <<>>]

\* the non-blocking drain of fault events at the top of the loop, at
\* instant t: the sensor afterwards, the acks sent, and for the history
\* each event with the sensor before and after it and the acks it caused
RECURSIVE drain(_, _, _, _, _, _)
drain(s, st, q, t, sent, trace) ==
    IF q = <<>> THEN [st |-> st, acks |-> sent, trace |-> trace]
    ELSE drain(s, on_event(s, st, Head(q), t).st, Tail(q), t,
               sent \o on_event(s, st, Head(q), t).acks,
               Append(trace, [ev |-> Head(q), before |-> st,
                              after |-> on_event(s, st, Head(q), t).st,
                              acks |-> on_event(s, st, Head(q), t).acks]))

\* ticker.tick() returned at instant start: the next deadline of the
\* interval under MissedTickBehavior::Delay
next_due(s, st, start) ==
    IF start > st.due + MISSED_TICK_MS THEN start + sampling_interval_ms(s)
    ELSE st.due + sampling_interval_ms(s)

\* the attitude sensor skips the cycle that starts at instant start
paused(s, st, start) == s = "attitude" /\ st.until # NoInstant /\ start < st.until

\* the thermal sensor sleeps extra_delay_ms before it builds the reading
delayed(s, st, start) ==
    s = "thermal" /\ st.until # NoInstant /\ start < st.until /\ st.extra_delay_ms > 0

\* the power sensor builds the reading from corrupt values
corrupted(s, st, start) == s = "power" /\ st.until # NoInstant /\ start < st.until

\* thermal: send_res.is_err() || (actual_ms - ideal_ms) > 1.0
is_miss(s, st, start, send_ok) ==
    ~send_ok \/ (start - st.last_start) - sampling_interval_ms(s) > MISS_MS

\* thermal: consecutive_misses after the cycle, before the alert test
misses_counted(s, st, start, send_ok) ==
    IF s # "thermal" THEN st.consecutive_misses
    ELSE IF is_miss(s, st, start, send_ok) THEN st.consecutive_misses + 1
    ELSE 0

\* thermal: consecutive_misses > 3, the safety alert
alert(s, st, start, send_ok) == misses_counted(s, st, start, send_ok) > MISS_LIMIT

\* the EmergencyData of the safety alert
thermal_alert == [severity |-> "High", alert_type |-> "thermal"]

\* em_tx.try_send(em) on the mailbox of EMER_CAP slots
try_send(mailbox, em) == IF Len(mailbox) < EMER_CAP THEN Append(mailbox, em) ELSE mailbox

\* the end of a cycle begun at instant start: the bookkeeping after
\* tx.send(r).await returned send_ok, or the skip of a paused cycle
end_cycle(s, st, start, send_ok) ==
    [st EXCEPT !.seq = @ + 1,
               !.last_start = start,
               !.consecutive_misses =
                   IF paused(s, st, start) THEN @
                   ELSE IF alert(s, st, start, send_ok) THEN 0
                   ELSE misses_counted(s, st, start, send_ok),
               !.start = NoInstant,
               !.send_ok = TRUE]

\* no cycle made, no events drained
NoCycle ==
    [s |-> "none", start |-> 0, seq |-> 0, sent |-> FALSE, send_ok |-> TRUE,
     paused |-> FALSE, delayed |-> FALSE, corrupted |-> FALSE, actual |-> 0,
     misses_before |-> 0, misses_after |-> 0, alert |-> FALSE, at |-> 0,
     unready |-> FALSE]

\* for the history: the cycle of sensor s (st before it) begun at start
\* and ended at instant t
cycle_made(s, st, start, send_ok, t) ==
    [s |-> s, start |-> start, seq |-> st.seq,
     sent |-> ~paused(s, st, start) /\ send_ok, send_ok |-> send_ok,
     paused |-> paused(s, st, start), delayed |-> delayed(s, st, start),
     corrupted |-> corrupted(s, st, start), actual |-> start - st.last_start,
     misses_before |-> st.consecutive_misses,
     misses_after |-> end_cycle(s, st, start, send_ok).consecutive_misses,
     alert |-> ~paused(s, st, start) /\ alert(s, st, start, send_ok), at |-> t,
     unready |-> FALSE]

\* CHANNEL.get() is None: the cycle that forgets to advance seq
skip_cycle_keeps_seq(st, start) ==
    [st EXCEPT !.last_start = start, !.start = NoInstant, !.send_ok = TRUE]

\* CHANNEL.get() is None: warn, seq + 1, last_start = start, continue
skip_cycle(st, start) ==
    [st EXCEPT !.seq = @ + 1, !.last_start = start, !.start = NoInstant,
               !.send_ok = TRUE]

\* for the history: the cycle of sensor s skipped for want of the channel
cycle_skipped(s, st, start, t) ==
    [cycle_made(s, st, start, TRUE, t) EXCEPT
        !.sent = FALSE, !.misses_after = st.consecutive_misses, !.alert = FALSE,
        !.unready = TRUE]

(***************************************************************************)
(* Fault bus: the injector (faults/mod.rs)                                 *)
(***************************************************************************)
\* time::interval(Duration::from_secs(60))
INJECT_PERIOD_MS == 60000
\* deadline = started + Duration::from_millis(500)
RECOVERY_DEADLINE_MS == 500
\* aborted = rec_ms > 200.0
ABORT_MS == 200
\* log_fault_recovery(&fault_id, "unknown", 1000.0, true)
TIMEOUT_ROW_MS == 1000
\* ThermalDelay { extra_ms: 10, for_ms: 150 }
THERMAL_EXTRA_MS == 10
THERMAL_FOR_MS == 150
\* PowerCorrupt { for_ms: 200 }
POWER_FOR_MS == 200
\* AttitudePause { for_ms: 150 }
ATTITUDE_FOR_MS == 150

\* match which % 3: the fault published with id fault_id, its target and
\* the duration_ms the injector lets it persist
fault_of(which, fault_id) ==
    CASE which % 3 = 0 ->
           [target |-> "thermal", duration_ms |-> THERMAL_FOR_MS,
            ev |-> FaultEvent("ThermalDelay", fault_id, THERMAL_EXTRA_MS, THERMAL_FOR_MS, "")]
      [] which % 3 = 1 ->
           [target |-> "power", duration_ms |-> POWER_FOR_MS,
            ev |-> FaultEvent("PowerCorrupt", fault_id, 0, POWER_FOR_MS, "")]
      [] OTHER ->
           [target |-> "attitude", duration_ms |-> ATTITUDE_FOR_MS,
            ev |-> FaultEvent("AttitudePause", fault_id, 0, ATTITUDE_FOR_MS, "")]

\* the injector task as tokio::spawn leaves it: which = 0, and the first
\* tick of the interval completes at once
injector_spawned ==
    [pc |-> "tick", wake |-> 0, next_tick |-> 0, which |-> 0, fault_id |-> NoFault,
     target |-> "none", duration_ms |-> 0, injected_at |-> 0, started |-> 0,
     deadline |-> 0, discarded |-> 0]

\* bus_tx.send(ev) at instant t: every subscribed receiver gets the event
bus_send(queues, subscribed, ev) ==
    [s \in FSensors |-> IF s \in subscribed THEN Append(queues[s], ev) ELSE queues[s]]

\* an injector that takes the first ACK in the channel for the recovery
ack_matches_any(ack, fault_id) == TRUE

\* if ack.fault_id == fault_id
ack_matches(ack, fault_id) == ack.fault_id = fault_id

\* an injector that aborts only past the deadline of the wait
aborted_past_deadline(rec_ms) == rec_ms > RECOVERY_DEADLINE_MS

\* let aborted = rec_ms > 200.0
aborted_at(rec_ms) == rec_ms > ABORT_MS

\* a Recover sent with the fault, before it has persisted
recover_wake_at_once(t, duration_ms) == t

\* time::sleep(Duration::from_millis(duration_ms)) called at instant t: the
\* instant the injector goes on
recover_wake(t, duration_ms) == t + duration_ms

\* the deadline of the wait, fixed when Recover was sent; t is the instant
\* an unrelated ACK is discarded
wait_deadline(started, t) == started + RECOVERY_DEADLINE_MS

\* the row given to log_fault_recovery at instant t
recovery_row(fault_id, component, recovery_ms, aborted, t) ==
    [fault_id |-> fault_id, component |-> component, recovery_ms |-> recovery_ms,
     aborted |-> aborted, at |-> t]

MinOf(S) == CHOOSE x \in S : \A y \in S : x <= y
MaxOf(S) == CHOOSE x \in S : \A y \in S : x >= y

(***************************************************************************)
(* State                                                                   *)
(***************************************************************************)
VARIABLES
    buf,        \* BUFFER: struct Inner {capacity, hi, im, lo}
    res,        \* InsertResult returned by the last push
    out,        \* Vec returned by the last pop_many of the SpecBuffer driver
    op,         \* the last call of the SpecBuffer driver, with its argument
    pushed,     \* number of push calls made by the SpecBuffer driver
    max_batch,  \* cfg.max_batch
    sensor,     \* per sensor task: where it is, its seq, the reading it holds
    waitq,      \* sensors suspended in tx.send, in the order they arrived
    chan,       \* CHANNEL: the bounded sensor ingress channel
    bpc,        \* batcher task: "idle" at ticker.tick, "fill", "gate", "tx", "degrade" in send
    batch,      \* the batcher's pending batch
    fill_pct,   \* send: the fill percentage sampled for this attempt
    gate,       \* send: the event pre_send returned for this attempt ("None" before the first)
    txq,        \* TX-queue samples logged by the current or last send call
    socket,     \* telemetry payloads put on the datagram socket, in order
    link,       \* DL: the LinkState behind the downlink mutex
    vpc,        \* visibility task: "tick" before open(), "window" before close()
    now,        \* Instant::now() in ms
    missed,     \* history: MissedInit events since the last open(), up to 2
    cleared,    \* history: readings cleared from the batch without being sent
    call,       \* the last call of the SpecLink driver, with the state it found
    tasks,      \* spawn_rm: the runtime state of the three RtTask
    ready,      \* spawn_rm: the ready queue, a Vec<Job>
    job,        \* spawn_rm: the job that has the processor (NoJob outside the slices)
    spec_is_thermal, \* spawn_rm: locals set when a job is picked in step 4
    task_name,
    deadline_dur,
    start_delay_ms,
    ran_ms,     \* spawn_rm: work done since step 4, in slices
    rx_preempt, \* thermal signals waiting in the preemption channel
    spc,        \* scheduler task: "top" of the loop, "idle" in select!, "run" in the slices, "panicked"
    tnow,       \* Instant::now() of the scheduler, in slices since spawn_rm
    signals,    \* history: thermal signals sent so far
    lates,      \* history: sleeps that took MaxLate longer than asked
    sev,        \* history: what the scheduler's last step did with job and ready
    row,        \* the last per-job row given to log_sched_event, with the warn! flag
    fop,        \* the last call made on the Framer, with its arguments
    fbuf,       \* the byte buffer the Framer's caller holds
    fres,       \* anyhow::Result returned by the last deframe
    sealer,     \* the CryptoContext seal_to_bytes was called on
    packet,     \* the CommunicationPacket given to seal_to_bytes
    sealed,     \* Result returned by seal_to_bytes
    wire,       \* the bytes as they reach open_from_bytes
    changed,    \* history: the part of the frame changed on the way ("none" if none)
    opener,     \* the CryptoContext open_from_bytes was called on
    opened,     \* Result returned by open_from_bytes, and whether it decrypted
    ftime,      \* Instant::now() of the fault bus tasks, in ms since the injector's start
    inj,        \* the injector task: where it is and its locals
    fs,         \* per sensor task: where it is, its ticker and its fault state
    bus,        \* BUS: per subscribed receiver, the events it has not yet received
    acks,       \* the ACK channel, mpsc::channel::<FaultAck>(64)
    emer,       \* the emergency mailbox, mpsc::channel::<EmergencyData>(32)
    stalls,     \* history: cycles held up in tx.send so far
    closed,     \* the receiver of the ingress channel has been dropped
    published,  \* history: every event given to bus_tx.send, with the instant
    recovery_log, \* history: the rows given to log_fault_recovery
    ack_log,    \* history: every FaultAck sent
    fcyc,       \* history: the last sensor cycle made
    fdrain,     \* history: the last drain of fault events, event by event
    made,       \* the last call of ThermalSensor::create_reading and its result
    popped,     \* history: every reading returned by pop_many, in order
    evicted,    \* history: every stored reading a push removed, in order
    drops,      \* history: the number of pushes that returned Dropped
    channel     \* telemetry::CHANNEL.get() is Some

bufVars == <<buf, res, out, op, pushed>>
pipeVars == <<max_batch, sensor, waitq, chan, bpc, batch, fill_pct, gate, txq,
              socket, link, vpc, now, missed, cleared>>
rmVars == <<tasks, ready, job, spec_is_thermal, task_name, deadline_dur,
            start_delay_ms, ran_ms, rx_preempt, spc, tnow, signals, lates, sev, row>>
frameVars == <<fop, fbuf, fres>>
aeadVars == <<sealer, packet, sealed, wire, changed, opener, opened>>
\* the variables of the tasks and objects outside the pipeline and the scheduler
faultVars == <<ftime, inj, fs, bus, acks, emer, stalls, closed, published,
               recovery_log, ack_log, fcyc, fdrain>>
consVars == <<popped, evicted, drops>>
restVars == <<made, consVars, channel>>
extVars == <<frameVars, aeadVars, faultVars, restVars>>
coreVars == <<bufVars, pipeVars, call, rmVars>>
vars == <<buf, res, out, op, pushed, max_batch, sensor, waitq, chan, bpc, batch,
          fill_pct, gate, txq, socket, link, vpc, now, missed, cleared, call,
          tasks, ready, job, spec_is_thermal, task_name, deadline_dur,
          start_delay_ms, ran_ms, rx_preempt, spc, tnow, signals, lates, sev, row,
          fop, fbuf, fres, sealer, packet, sealed, wire, changed, opener, opened,
          ftime, inj, fs, bus, acks, emer, stalls, closed, published,
          recovery_log, ack_log, fcyc, fdrain, made, popped, evicted, drops, channel>>

NoOp == [name |-> "none", n |-> 0, priority |-> "Normal"]

NoReading == [sensor_id |-> 0, sequence_number |-> 0, priority |-> "Normal"]

\* the driver of SpecLink has made no call yet
NoCall == [name |-> "none", on |-> FALSE, before |-> Closed, at |-> 0,
           pname |-> "none", pon |-> FALSE]

\* the Framer's caller has made no call yet
NoFrameOp == [name |-> "none", from |-> "none", data |-> <<>>, trail |-> <<>>]

\* Framer::default(): the Framer has no fields; nothing framed yet
InitFramer ==
    /\ fop = NoFrameOp
    /\ fbuf = <<>>
    /\ fres = FrameNone

NoContext == CryptoContext_new(0, "none")

NoPacket == [header |-> [protocol_version |-> 0, packet_type |-> "none",
                         sequence_number |-> 0, source |-> "none",
                         destination |-> "none"],
             payload |-> "none"]

\* no packet sealed yet
InitAead ==
    /\ sealer = NoContext
    /\ packet = NoPacket
    /\ sealed = SealErr("None")
    /\ wire = NoBytes
    /\ changed = "none"
    /\ opener = NoContext
    /\ opened = NotOpened

NoDrain == [s |-> "none", at |-> 0, trace |-> <<>>]

\* faults::init_and_spawn and sensors::spawn_all have returned: the
\* injector and the three sensor tasks are spawned and none has run; the
\* sensors make their priming tick at instant ph
InitFaults(ph) ==
    /\ ftime = 0
    /\ inj = injector_spawned
    /\ fs = [s \in FSensors |-> sensor_spawned(ph)]
    /\ bus = [s \in FSensors |-> <<>>]
    /\ acks = <<>>
    /\ emer = <<>>
    /\ stalls = 0
    /\ closed = FALSE
    /\ published = <<>>
    /\ recovery_log = <<>>
    /\ ack_log = <<>>
    /\ fcyc = NoCycle
    /\ fdrain = NoDrain

\* no reading created yet
NoCreated == [called |-> FALSE]

\* main.rs calls spawn_batcher, which sets CHANNEL, before sensors::spawn_all
InitRestWith(ch) ==
    made = NoCreated /\ popped = <<>> /\ evicted = <<>> /\ drops = 0 /\ channel = ch

InitRest == InitRestWith(TRUE)

InitExt == InitFramer /\ InitAead /\ InitFaults(0) /\ InitRest

\* the tasks main has spawned, with the buffer b, before the first tick of
\* the batcher; the thermal sensor has completed n cycles
InitCore(b, mb, n) ==
    /\ buf = b
    /\ res = Accepted
    /\ out = <<>>
    /\ op = NoOp
    /\ pushed = 0
    /\ max_batch = mb
    /\ sensor = [s \in Sensors |->
                    [pc |-> "tick", seq |-> IF s = 1 THEN n ELSE 0, cur |-> NoReading]]
    /\ waitq = <<>>
    /\ chan = <<>>
    /\ bpc = "idle"
    /\ batch = <<>>
    /\ fill_pct = 0
    /\ gate = "None"
    /\ txq = 0
    /\ socket = <<>>
    /\ link = Closed
    /\ vpc = "tick"
    /\ now = 0
    /\ missed = 0
    /\ cleared = {}
    /\ call = NoCall
    /\ tasks = [i \in TaskIdx |-> RtTask_new(i, 0)]
    /\ ready = <<>>
    /\ job = NoJob
    /\ spec_is_thermal = FALSE
    /\ task_name = "none"
    /\ deadline_dur = 0
    /\ start_delay_ms = 0
    /\ ran_ms = 0
    /\ rx_preempt = 0
    /\ spc = "top"
    /\ tnow = 0
    /\ signals = 0
    /\ lates = 0
    /\ sev = NoEvent
    /\ row = NoRow

InitProduced(b, mb, n) == InitCore(b, mb, n) /\ InitExt

\* the tasks right after main has spawned them, with the buffer b
InitTasks(b, mb) == InitProduced(b, mb, 0)

(***************************************************************************)
(* SpecBuffer: BufferHandle under arbitrary push and pop_many calls        *)
(***************************************************************************)
InitBuffer == \E c \in 0..MaxCap : InitTasks(new(c), 0)

\* readings are identified by (sensor_id, sequence_number)
BufPush(p) ==
    /\ pushed < MaxPush
    /\ LET r == [sensor_id |-> 0, sequence_number |-> pushed + 1, priority |-> p]
           c == push(buf, r)
       IN /\ buf' = c.g
          /\ res' = c.result
    /\ pushed' = pushed + 1
    /\ op' = [name |-> "push", n |-> pushed + 1, priority |-> p]
    /\ UNCHANGED out
    /\ UNCHANGED pipeVars
    /\ UNCHANGED <<call, rmVars, extVars>>

BufPop(k) ==
    /\ LET c == pop_many(buf, k)
       IN /\ buf' = c.g
          /\ out' = c.out
    /\ op' = [name |-> "pop_many", n |-> k, priority |-> "Normal"]
    /\ UNCHANGED <<res, pushed>>
    /\ UNCHANGED pipeVars
    /\ UNCHANGED <<call, rmVars, extVars>>

NextBuffer ==
    \/ \E p \in Priority : BufPush(p)
    \/ \E k \in 0..MaxPop : BufPop(k)

SpecBuffer == InitBuffer /\ [][NextBuffer]_vars

(***************************************************************************)
(* The buffer handle shared by the ingest task (push) and the batcher      *)
(* (pop_many): each call holds the mutex from its first line to its last,  *)
(* so the calls of the two tasks interleave one whole call at a time.      *)
(***************************************************************************)
\* the stored readings of g that are no longer stored in g2
removed(g, g2) ==
    SelectSeq(g.hi \o g.im \o g.lo,
              LAMBDA x : \A i \in DOMAIN (g2.hi \o g2.im \o g2.lo) :
                            (g2.hi \o g2.im \o g2.lo)[i] # x)

\* the ingest task: buf.push(r).await
IngestPush(p) ==
    /\ pushed < MaxIngest
    /\ \E c \in {push(buf, [sensor_id |-> 0, sequence_number |-> pushed + 1, priority |-> p])} :
         /\ buf' = c.g
         /\ res' = c.result
         /\ evicted' = evicted \o removed(buf, c.g)
         /\ drops' = drops + (IF c.result.tag = "Dropped" THEN 1 ELSE 0)
    /\ pushed' = pushed + 1
    /\ op' = [name |-> "push", n |-> pushed + 1, priority |-> p]
    /\ UNCHANGED <<out, popped, made, channel>>
    /\ UNCHANGED pipeVars
    /\ UNCHANGED <<call, rmVars, frameVars, aeadVars, faultVars>>

\* the batcher: buf_for_send.pop_many(cfg.max_batch).await
BatcherPop(k) ==
    /\ \E c \in {pop_many(buf, k)} :
         /\ buf' = c.g
         /\ out' = c.out
         /\ popped' = popped \o c.out
    /\ op' = [name |-> "pop_many", n |-> k, priority |-> "Normal"]
    /\ UNCHANGED <<res, pushed, evicted, drops, made, channel>>
    /\ UNCHANGED pipeVars
    /\ UNCHANGED <<call, rmVars, frameVars, aeadVars, faultVars>>

NextShared ==
    \/ \E p \in Priority : IngestPush(p)
    \/ \E k \in 1..MaxPop : len(buf) > 0 /\ BatcherPop(k)

SpecShared == InitBuffer /\ [][NextShared]_vars

(***************************************************************************)
(* Spec: the pipeline main starts                                          *)
(***************************************************************************)
\* main: the buffer holds 8 batches; the downlink starts Closed
Init == \E mb \in 0..MaxBatch : InitTasks(new(mb * BUFFER_BATCHES), mb)

\* readings created so far: one per completed cycle and one per sensor
\* suspended in send
Produced == sensor[1].seq + sensor[2].seq + sensor[3].seq + Len(waitq)

\* One cycle of a sensor task: at its tick it creates reading seq and calls
\* tx.send(r).await. With a free slot the reading is enqueued and the cycle
\* ends; with the channel full the task is suspended inside send, holding r.
SensorCycle(s) ==
    /\ sensor[s].pc = "tick"
    /\ Produced < MaxReadings
    /\ \E p \in SensorPriorities(s) :
         LET r == [sensor_id |-> s, sequence_number |-> sensor[s].seq, priority |-> p]
         IN IF Len(chan) < ChanCap /\ waitq = <<>>
            THEN /\ chan' = Append(chan, r)
                 /\ sensor' = [sensor EXCEPT ![s].seq = @ + 1]
                 /\ UNCHANGED waitq
            ELSE /\ sensor' = [sensor EXCEPT ![s].pc = "send", ![s].cur = r]
                 /\ waitq' = Append(waitq, s)
                 /\ UNCHANGED chan
    /\ UNCHANGED <<bufVars, max_batch, bpc, batch, fill_pct, gate, txq, socket,
                   link, vpc, now, missed, cleared>>
    /\ UNCHANGED <<call, rmVars, extVars>>

\* A suspended tx.send completes once the channel has a free slot; the
\* senders are served in the order they arrived.
SensorSendResume(s) ==
    /\ sensor[s].pc = "send"
    /\ waitq # <<>> /\ Head(waitq) = s
    /\ Len(chan) < ChanCap
    /\ chan' = Append(chan, sensor[s].cur)
    /\ waitq' = Tail(waitq)
    /\ sensor' = [sensor EXCEPT ![s].pc = "tick", ![s].seq = @ + 1, ![s].cur = NoReading]
    /\ UNCHANGED <<bufVars, max_batch, bpc, batch, fill_pct, gate, txq, socket,
                   link, vpc, now, missed, cleared>>
    /\ UNCHANGED <<call, rmVars, extVars>>

\* The ingest task: rx.recv() then buf.push(r)
Ingest ==
    /\ chan # <<>>
    /\ LET c == push(buf, Head(chan))
       IN /\ buf' = c.g
          /\ res' = c.result
    /\ chan' = Tail(chan)
    /\ UNCHANGED <<out, op, pushed, max_batch, sensor, waitq, bpc, batch, fill_pct,
                   gate, txq, socket, link, vpc, now, missed, cleared>>
    /\ UNCHANGED <<call, rmVars, extVars>>

\* The batcher's tick: a pending batch is sent again as it is; otherwise up
\* to max_batch readings are popped and, if there are any, sent.
BatcherTick ==
    /\ bpc = "idle"
    /\ IF batch # <<>>
       THEN /\ bpc' = "fill"
            /\ UNCHANGED <<buf, batch>>
       ELSE LET c == pop_many(buf, max_batch)
            IN /\ c.out # <<>>
               /\ buf' = c.g
               /\ batch' = c.out
               /\ bpc' = "fill"
    /\ UNCHANGED <<res, out, op, pushed, max_batch, sensor, waitq, chan, fill_pct,
                   gate, txq, socket, link, vpc, now, missed, cleared>>
    /\ UNCHANGED <<call, rmVars, extVars>>

\* send: buf.fill_pct().await
SendFill ==
    /\ bpc = "fill"
    /\ fill_pct' = fill_pct_of(buf)
    /\ txq' = 0
    /\ bpc' = "gate"
    /\ UNCHANGED <<bufVars, max_batch, sensor, waitq, chan, batch, gate, socket,
                   link, vpc, now, missed, cleared>>
    /\ UNCHANGED <<call, rmVars, extVars>>

\* send: dl.pre_send().await and the match on the gate. MissedInit logs a
\* TX-queue sample, clears the batch and returns; NotInWindow logs a sample
\* and returns; the Ready events go on to crypto.seal, whose Err (a packet
\* over 1 MiB) skips the transmission and clears the batch.
SendGate ==
    /\ bpc = "gate"
    /\ LET c == pre_send(link, now)
           todo == match_gate(c.event)
       IN /\ link' = c.link
          /\ gate' = c.event
          /\ missed' = IF c.event = "MissedInit" THEN Min(missed + 1, 2) ELSE missed
          /\ CASE todo = "log_clear_return" ->
                    /\ txq' = 1
                    /\ cleared' = cleared \cup SetOf(batch)
                    /\ batch' = <<>>
                    /\ bpc' = "idle"
               [] todo = "log_return" ->
                    /\ txq' = 1
                    /\ bpc' = "idle"
                    /\ UNCHANGED <<batch, cleared>>
               [] OTHER ->
                    \/ /\ bpc' = "tx"
                       /\ UNCHANGED <<batch, cleared, txq>>
                    \/ /\ cleared' = cleared \cup SetOf(batch)
                       /\ batch' = <<>>
                       /\ bpc' = "idle"
                       /\ UNCHANGED txq
    /\ UNCHANGED <<bufVars, max_batch, sensor, waitq, chan, fill_pct, socket, vpc, now>>
    /\ UNCHANGED <<call, rmVars, extVars>>

\* send: sock.send(&bytes).await, then log_batch and log_tx_queue
SendTx ==
    /\ bpc = "tx"
    /\ socket' = Append(socket, batch)
    /\ txq' = txq + 1
    /\ bpc' = "degrade"
    /\ UNCHANGED <<bufVars, max_batch, sensor, waitq, chan, batch, fill_pct, gate,
                   link, vpc, now, missed, cleared>>
    /\ UNCHANGED <<call, rmVars, extVars>>

\* send: the degraded mode trigger, then batch.clear()
SendDegrade ==
    /\ bpc = "degrade"
    /\ link' = set_degraded(link, degraded_on(fill_pct))
    /\ batch' = <<>>
    /\ bpc' = "idle"
    /\ UNCHANGED <<bufVars, max_batch, sensor, waitq, chan, fill_pct, gate, txq,
                   socket, vpc, now, missed, cleared>>
    /\ UNCHANGED <<call, rmVars, extVars>>

\* The visibility task: open() at its 5 s tick, close() 800 ms later. The
\* clock of the model is too short for either delay, so both calls may come
\* at any time; only differences of instants are ever compared.
VisOpen ==
    /\ vpc = "tick"
    /\ link' = open(link, now)
    /\ vpc' = "window"
    /\ missed' = 0
    /\ UNCHANGED <<bufVars, max_batch, sensor, waitq, chan, bpc, batch, fill_pct,
                   gate, txq, socket, now, cleared>>
    /\ UNCHANGED <<call, rmVars, extVars>>

VisClose ==
    /\ vpc = "window"
    /\ link' = close(link)
    /\ vpc' = "tick"
    /\ UNCHANGED <<bufVars, max_batch, sensor, waitq, chan, bpc, batch, fill_pct,
                   gate, txq, socket, now, missed, cleared>>
    /\ UNCHANGED <<call, rmVars, extVars>>

\* Time passes, in jumps of INIT_MS or INIT_MS + 1 ms: the delays on either
\* side of the init limit pre_send compares with.
Advance ==
    /\ \E d \in {INIT_MS, INIT_MS + 1} :
         /\ now + d <= MaxNow
         /\ now' = now + d
    /\ UNCHANGED <<bufVars, max_batch, sensor, waitq, chan, bpc, batch, fill_pct,
                   gate, txq, socket, link, vpc, missed, cleared>>
    /\ UNCHANGED <<call, rmVars, extVars>>

Next ==
    \/ \E s \in Sensors : SensorCycle(s)
    \/ \E s \in Sensors : SensorSendResume(s)
    \/ Ingest
    \/ BatcherTick
    \/ SendFill
    \/ SendGate
    \/ SendTx
    \/ SendDegrade
    \/ VisOpen
    \/ VisClose
    \/ Advance

Spec == Init /\ [][Next]_vars

(***************************************************************************)
(* SpecLink: the Downlink object alone. The visibility task calls open()   *)
(* and close() in turn; pre_send and set_degraded are public and called at *)
(* any time, with any argument.                                            *)
(***************************************************************************)
InitLink == InitTasks(new(0), 0)

Called(name, on) ==
    [name |-> name, on |-> on, before |-> link, at |-> now,
     pname |-> call.name, pon |-> call.on]

DlOpen ==
    /\ vpc = "tick"
    /\ link' = open(link, now)
    /\ vpc' = "window"
    /\ missed' = 0
    /\ call' = Called("open", FALSE)
    /\ UNCHANGED <<bufVars, max_batch, sensor, waitq, chan, bpc, batch, fill_pct,
                   gate, txq, socket, now, cleared, rmVars, extVars>>

DlClose ==
    /\ vpc = "window"
    /\ link' = close(link)
    /\ vpc' = "tick"
    /\ call' = Called("close", FALSE)
    /\ UNCHANGED <<bufVars, max_batch, sensor, waitq, chan, bpc, batch, fill_pct,
                   gate, txq, socket, now, missed, cleared, rmVars, extVars>>

DlPreSend ==
    /\ LET c == pre_send(link, now)
       IN /\ link' = c.link
          /\ gate' = c.event
          /\ missed' = IF c.event = "MissedInit" THEN Min(missed + 1, 2) ELSE missed
    /\ call' = Called("pre_send", FALSE)
    /\ UNCHANGED <<bufVars, max_batch, sensor, waitq, chan, bpc, batch, fill_pct,
                   txq, socket, vpc, now, cleared, rmVars, extVars>>

DlSetDegraded(on) ==
    /\ link' = set_degraded(link, on)
    /\ call' = Called("set_degraded", on)
    /\ UNCHANGED <<bufVars, max_batch, sensor, waitq, chan, bpc, batch, fill_pct,
                   gate, txq, socket, vpc, now, missed, cleared, rmVars, extVars>>

\* Time passes, in jumps on either side of the init limit and beyond the
\* preparation limit.
DlAdvance ==
    /\ \E d \in {INIT_MS, INIT_MS + 1, PREP_MS + 1} :
         /\ now + d <= MaxLinkNow
         /\ now' = now + d
    /\ UNCHANGED <<bufVars, max_batch, sensor, waitq, chan, bpc, batch, fill_pct,
                   gate, txq, socket, link, vpc, missed, cleared, call, rmVars, extVars>>

NextLink ==
    \/ DlOpen
    \/ DlClose
    \/ DlPreSend
    \/ \E on \in BOOLEAN : DlSetDegraded(on)
    \/ DlAdvance

SpecLink == InitLink /\ [][NextLink]_vars

(***************************************************************************)
(* SpecBacklog: the batcher and the downlink with a backlog in the buffer. *)
(* The thermal sensor has filled the buffer of 8 batches with n readings   *)
(* before the batcher's first tick; no sensor produces in the meantime.    *)
(***************************************************************************)
RECURSIVE backlog(_)
backlog(n) ==
    IF n = 0 THEN <<>>
    ELSE Append(backlog(n - 1),
                [sensor_id |-> 1, sequence_number |-> n - 1, priority |-> "Important"])

InitBacklog ==
    \E mb \in 1..MaxBatch : \E n \in 1..(mb * BUFFER_BATCHES) :
        InitProduced([new(mb * BUFFER_BATCHES) EXCEPT !.im = backlog(n)], mb, n)

NextBacklog ==
    \/ BatcherTick
    \/ SendFill
    \/ SendGate
    \/ SendTx
    \/ SendDegrade
    \/ VisOpen
    \/ VisClose
    \/ Advance

SpecBacklog == InitBacklog /\ [][NextBacklog]_vars

(***************************************************************************)
(* SpecRM: the scheduler task spawn_rm. A thermal signal is a send on the  *)
(* public PREEMPT_CH; a sleep ends at the instant asked for or MaxLate     *)
(* slices later. The scheduler is followed until antenna_alignment has     *)
(* been released MaxJobs times and the ready queue has been worked off.    *)
(***************************************************************************)
InitRM == InitTasks(new(0), 0)

\* how much longer than asked a sleep may take
Lateness == {0} \cup (IF signals + lates < MaxEvents THEN {MaxLate} ELSE {})

\* step 4: the locals set from the job picked at instant t
pick(j, t) ==
    [spec_is_thermal |-> j.task_idx = USIZE_MAX,
     task_name |-> IF j.task_idx = USIZE_MAX THEN "thermal_control"
                   ELSE TaskTable[j.task_idx].name,
     deadline_dur |-> IF j.task_idx = USIZE_MAX THEN Ms(THERMAL_DEADLINE_MS)
                      ELSE tasks[j.task_idx].deadline,
     start_delay_ms |-> IF t > j.release THEN t - j.release ELSE 0]

\* The top of the loop, steps 1 to 4: release_due, try_recv, then either the
\* idle path or the pick of the head of the ready queue. A job picked with
\* nothing left to run skips the slices and is completed at once.
SchedTop ==
    /\ spc = "top"
    /\ \E rd \in {release_due(tasks, ready, tnow)} :
       \E rq2 \in {IF ~rd.panic /\ rx_preempt > 0
                   THEN spawn_thermal_job(rd.ready, tnow) ELSE rd.ready} :
       LET got == ~rd.panic /\ rx_preempt > 0
           j == IF rq2 = <<>> THEN NoJob ELSE Head(rq2)
           p == pick(j, tnow)
           ev == [NoEvent EXCEPT !.released = rd.released, !.injected = got]
       IN /\ tasks' = rd.tasks
          /\ rx_preempt' = IF got THEN rx_preempt - 1 ELSE rx_preempt
          /\ IF rd.panic \/ rq2 = <<>>
             THEN /\ spc' = IF rd.panic THEN "panicked" ELSE "idle"
                  /\ ready' = rq2
                  /\ sev' = ev
                  /\ UNCHANGED <<job, spec_is_thermal, task_name, deadline_dur,
                                 start_delay_ms, ran_ms, row>>
             ELSE /\ ready' = Tail(rq2)
                  /\ spec_is_thermal' = p.spec_is_thermal
                  /\ task_name' = p.task_name
                  /\ deadline_dur' = p.deadline_dur
                  /\ start_delay_ms' = p.start_delay_ms
                  /\ ran_ms' = 0
                  /\ IF j.remaining_ms > 0
                     THEN /\ job' = j
                          /\ spc' = "run"
                          /\ row' = row
                          /\ sev' = [ev EXCEPT !.queue = rq2, !.dispatched = j]
                     ELSE /\ job' = NoJob
                          /\ spc' = "top"
                          /\ row' = outcome_row(p.task_name, j, p.start_delay_ms, 0,
                                                p.deadline_dur, tnow)
                          /\ sev' = [ev EXCEPT !.queue = rq2, !.dispatched = j,
                                               !.completed = j, !.finish = tnow]
    /\ UNCHANGED <<tnow, signals, lates>>
    /\ UNCHANGED <<bufVars, pipeVars, call, extVars>>

\* One pass of the while loop of step 5: the sleep of one slice, the
\* accounting and, when ran_ms % 1.0 < SLICE_MS, the scheduling check with
\* its preemption branch; then, once the job that has the processor has
\* nothing left, steps 6 and 7.
RunSlice ==
    /\ spc = "run"
    /\ \E late \in Lateness :
         \E c \in {IF (ran_ms + 1) % SLICES_PER_MS = 0
                   THEN sched_check(tasks, ready, [job EXCEPT !.remaining_ms = @ - 1],
                                    spec_is_thermal, tnow + 1 + late, rx_preempt)
                   ELSE [tasks |-> tasks, ready |-> ready,
                         job |-> [job EXCEPT !.remaining_ms = @ - 1], rx |-> rx_preempt,
                         panic |-> FALSE, released |-> <<>>, injected |-> FALSE,
                         preempted |-> NoJob, queue |-> <<>>, next |-> NoJob]} :
         LET t2 == tnow + 1 + late
             j1 == [job EXCEPT !.remaining_ms = @ - 1]
             ran2 == ran_ms + 1
             chk == ran2 % SLICES_PER_MS = 0
             ev == [NoEvent EXCEPT !.released = c.released, !.checked = chk,
                                   !.running = job, !.was_thermal = spec_is_thermal,
                                   !.injected = c.injected, !.preempted = c.preempted,
                                   !.queue = c.queue, !.next = c.next,
                                   !.dispatched = IF c.preempted # NoJob THEN c.job ELSE NoJob]
         IN /\ tnow' = t2
            /\ lates' = IF late > 0 THEN lates + 1 ELSE lates
            /\ ran_ms' = ran2
            /\ tasks' = c.tasks
            /\ ready' = c.ready
            /\ rx_preempt' = c.rx
            /\ IF c.panic
               THEN /\ spc' = "panicked"
                    /\ job' = j1
                    /\ row' = row
                    /\ sev' = ev
               ELSE IF c.job.remaining_ms > 0
               THEN /\ spc' = "run"
                    /\ job' = c.job
                    /\ row' = row
                    /\ sev' = ev
               ELSE /\ spc' = "top"
                    /\ job' = NoJob
                    /\ row' = outcome_row(task_name, c.job, start_delay_ms, ran2,
                                          deadline_dur, t2)
                    /\ sev' = [ev EXCEPT !.completed = c.job, !.finish = t2]
    /\ UNCHANGED <<spec_is_thermal, task_name, deadline_dur, start_delay_ms, signals>>
    /\ UNCHANGED <<bufVars, pipeVars, call, extVars>>

\* The idle path, step 3: the sleep_until branch of select!. It is taken
\* when the sleep has elapsed; a signal that is waiting before that wins.
IdleSleep ==
    /\ spc = "idle"
    /\ rx_preempt = 0 \/ sleep_until(tasks) <= tnow
    /\ tasks[1].seq < MaxJobs
    /\ \E late \in Lateness :
         LET su == sleep_until(tasks)
             t2 == (IF su > tnow THEN su ELSE tnow) + late
         IN /\ tnow' = t2
            /\ lates' = IF late > 0 THEN lates + 1 ELSE lates
    /\ spc' = "top"
    /\ sev' = NoEvent
    /\ UNCHANGED <<tasks, ready, job, spec_is_thermal, task_name, deadline_dur,
                   start_delay_ms, ran_ms, rx_preempt, signals, row>>
    /\ UNCHANGED <<bufVars, pipeVars, call, extVars>>

\* The idle path, step 3: the rx_preempt.recv() branch of select!
IdleRecv ==
    /\ spc = "idle"
    /\ rx_preempt > 0
    /\ rx_preempt' = rx_preempt - 1
    /\ ready' = spawn_thermal_job(ready, tnow)
    /\ spc' = "top"
    /\ sev' = [NoEvent EXCEPT !.injected = TRUE]
    /\ UNCHANGED <<tasks, job, spec_is_thermal, task_name, deadline_dur,
                   start_delay_ms, ran_ms, tnow, signals, lates, row>>
    /\ UNCHANGED <<bufVars, pipeVars, call, extVars>>

\* A send on PREEMPT_CH, a channel of 16. A signal sent during a slice
\* that no check follows is first looked for after the next slice, so it is
\* taken as sent during that one. While the scheduler sleeps in the idle
\* path the signal comes now or up to MaxEarly slices before the sleep ends.
ThermalSignal ==
    /\ \/ spc \in {"top", "idle"}
       \/ spc = "run" /\ (ran_ms + 1) % SLICES_PER_MS = 0
    /\ signals + lates < MaxEvents
    /\ rx_preempt < PREEMPT_CAP
    /\ rx_preempt' = rx_preempt + 1
    /\ signals' = signals + 1
    /\ IF spc = "idle"
       THEN \E e \in 0..MaxEarly :
              LET t2 == sleep_until(tasks) - e
              IN IF e = 0 THEN tnow' = tnow
                 ELSE t2 > tnow /\ tnow' = t2
       ELSE tnow' = tnow
    /\ UNCHANGED <<tasks, ready, job, spec_is_thermal, task_name, deadline_dur,
                   start_delay_ms, ran_ms, spc, lates, sev, row>>
    /\ UNCHANGED <<bufVars, pipeVars, call, extVars>>

NextRM ==
    \/ SchedTop
    \/ RunSlice
    \/ IdleSleep
    \/ IdleRecv
    \/ ThermalSignal

SpecRM == InitRM /\ [][NextRM]_vars

(***************************************************************************)
(* SpecFrame: the Framer under the calls of its users, one buffer at a     *)
(* time. The batcher frames a byte string; the command receiver deframes   *)
(* what the socket gave it, a frame followed by further bytes or any       *)
(* buffer at all.                                                          *)
(***************************************************************************)
InitFrame == InitTasks(new(0), 0)

\* frame(x), after which t arrives behind it in the same buffer
FrFrame(x, t) ==
    /\ fop.name = "none"
    /\ fop' = [name |-> "frame", from |-> "frame", data |-> x, trail |-> t]
    /\ fbuf' = frame(x) \o t
    /\ fres' = FrameNone
    /\ UNCHANGED <<coreVars, aeadVars, faultVars, restVars>>

\* the buffer b comes off the socket
FrRecv(b) ==
    /\ fop.name = "none"
    /\ fop' = [name |-> "recv", from |-> "recv", data |-> <<>>, trail |-> <<>>]
    /\ fbuf' = b
    /\ fres' = FrameNone
    /\ UNCHANGED <<coreVars, aeadVars, faultVars, restVars>>

\* deframe(&buf)
FrDeframe ==
    /\ fop.name \in {"frame", "recv"}
    /\ fop' = [fop EXCEPT !.name = "deframe"]
    /\ fres' = deframe(fbuf)
    /\ UNCHANGED fbuf
    /\ UNCHANGED <<coreVars, aeadVars, faultVars, restVars>>

NextFrame ==
    \/ \E x \in ByteSeqs(MaxData) : \E t \in ByteSeqs(MaxTrail) : FrFrame(x, t)
    \/ \E b \in ByteSeqs(MaxBuf) : FrRecv(b)
    \/ FrDeframe

SpecFrame == InitFrame /\ [][NextFrame]_vars

(***************************************************************************)
(* SpecAead: one packet sealed under one CryptoContext, the bytes changed  *)
(* in at most one place on the way, then opened under a CryptoContext.     *)
(***************************************************************************)
InitEnvelope == InitTasks(new(0), 0)

AeSeal(ctx, p, nonce) ==
    /\ sealed.tag = "None"
    /\ sealer' = ctx
    /\ packet' = p
    /\ sealed' = seal_to_bytes(ctx, p, nonce)
    /\ wire' = seal_to_bytes(ctx, p, nonce).bytes
    /\ UNCHANGED <<changed, opener, opened>>
    /\ UNCHANGED <<coreVars, frameVars, faultVars, restVars>>

\* the ClearHeader fields as the JSON text of the frame carries them
HeaderValues ==
    [protocol_version |-> Versions, packet_type |-> PacketTypes,
     sequence_number |-> SeqNums, source |-> Sources, destination |-> Sources,
     key_id |-> KeyIds, nonce |-> Nonces]

\* One byte of the ClearHeader changes on the way: field f now reads v,
\* another value of its type.
AeChangeHeader(f, v) ==
    /\ sealed.tag = "Ok" /\ changed = "none" /\ opened.tag = "None"
    /\ v # wire.frame.header[f]
    /\ wire' = [wire EXCEPT !.frame.header[f] = v]
    /\ changed' = f
    /\ UNCHANGED <<sealer, packet, sealed, opener, opened>>
    /\ UNCHANGED <<coreVars, frameVars, faultVars, restVars>>

\* One byte of the ciphertext changes on the way and the array still reads
\* as bytes.
AeChangeCiphertext ==
    /\ sealed.tag = "Ok" /\ changed = "none" /\ opened.tag = "None"
    /\ wire' = [wire EXCEPT !.frame.ciphertext.intact = FALSE]
    /\ changed' = "ciphertext"
    /\ UNCHANGED <<sealer, packet, sealed, opener, opened>>
    /\ UNCHANGED <<coreVars, frameVars, faultVars, restVars>>

\* One byte of the ClearHeader (a field f) or of the ciphertext changes on
\* the way so that the JSON text no longer deserializes there: a letter in
\* a number, an unknown variant name, a number above 255 in a byte array.
AeBreak(f) ==
    /\ sealed.tag = "Ok" /\ changed = "none" /\ opened.tag = "None"
    /\ wire' = [wire EXCEPT !.unparsed = {f}]
    /\ changed' = f
    /\ UNCHANGED <<sealer, packet, sealed, opener, opened>>
    /\ UNCHANGED <<coreVars, frameVars, faultVars, restVars>>

\* The datagram is cut short behind the length prefix.
AeTruncate ==
    /\ sealed.tag = "Ok" /\ changed = "none" /\ opened.tag = "None"
    /\ wire' = [wire EXCEPT !.complete = FALSE]
    /\ changed' = "length"
    /\ UNCHANGED <<sealer, packet, sealed, opener, opened>>
    /\ UNCHANGED <<coreVars, frameVars, faultVars, restVars>>

AeOpen(ctx) ==
    /\ sealed.tag = "Ok" /\ opened.tag = "None"
    /\ opener' = ctx
    /\ opened' = open_from_bytes(ctx, wire)
    /\ UNCHANGED <<sealer, packet, sealed, wire, changed>>
    /\ UNCHANGED <<coreVars, frameVars, faultVars, restVars>>

NextEnvelope ==
    \/ \E ctx \in Contexts : \E p \in Packets : \E nonce \in Nonces : AeSeal(ctx, p, nonce)
    \/ \E f \in DOMAIN HeaderValues : \E v \in HeaderValues[f] : AeChangeHeader(f, v)
    \/ AeChangeCiphertext
    \/ \E f \in DOMAIN HeaderValues \cup {"ciphertext"} : AeBreak(f)
    \/ AeTruncate
    \/ \E ctx \in Contexts : AeOpen(ctx)

SpecAead == InitEnvelope /\ [][NextEnvelope]_vars

(***************************************************************************)
(* The fault bus: the injector and the three sensor tasks on one clock.    *)
(* A step of a task is taken at the instant the task wakes; time moves     *)
(* to the earliest wake-up when no task can run.                           *)
(***************************************************************************)
InitFault ==
    /\ InitCore(new(0), 0, 0)
    /\ InitFramer /\ InitAead /\ InitRest
    /\ \E ph \in 0..MaxPhase : InitFaults(ph)

\* the receivers that exist: faults::subscribe() is called after the
\* priming tick
subscribed == {s \in FSensors : fs[s].pc # "spawned"}

\* the sensor the fault in flight, or the next fault, is aimed at
stall_target ==
    IF inj.pc = "tick" THEN fault_of(inj.which + 1, NoFault).target ELSE inj.target

\* the instants at which a full ingress channel is considered: from
\* StallShort ms before a fault is published until its episode is over
episode_near ==
    \/ inj.pc \in {"persist", "wait"}
    \/ /\ inj.pc = "tick" /\ inj.which < MaxFaults
       /\ inj.wake > ftime /\ inj.wake - ftime <= StallShort

\* how long tx.send(r).await may keep sensor s waiting for a slot
stall_choices(s) ==
    {0} \cup (IF stalls < MaxStalls /\ s = stall_target /\ episode_near
              THEN {StallShort, StallLong} ELSE {})

\* ticker.tick().await of the injector returned: which += 1, a fresh
\* fault_id (Uuid::new_v4, here the number of the fault), the fault event
\* is sent and the injector sleeps for duration_ms
InjTick ==
    /\ inj.pc = "tick" /\ ftime = inj.wake /\ inj.which < MaxFaults
    /\ \E f \in {fault_of(inj.which + 1, inj.which + 1)} :
         /\ bus' = bus_send(bus, subscribed, f.ev)
         /\ published' = Append(published, [ev |-> f.ev, at |-> ftime])
         /\ inj' = [inj EXCEPT !.pc = "persist",
                                !.which = @ + 1,
                                !.fault_id = f.ev.fault_id,
                                !.target = f.target,
                                !.duration_ms = f.duration_ms,
                                !.injected_at = ftime,
                                !.wake = recover_wake(ftime, f.duration_ms),
                                !.next_tick =
                                    IF ftime > @ + MISSED_TICK_MS
                                    THEN ftime + INJECT_PERIOD_MS
                                    ELSE @ + INJECT_PERIOD_MS,
                                !.discarded = 0]
    /\ UNCHANGED <<ftime, fs, acks, emer, stalls, closed, recovery_log, ack_log,
                   fcyc, fdrain>>
    /\ UNCHANGED <<coreVars, frameVars, aeadVars, restVars>>

\* the sleep is over: Recover is sent, started and deadline are taken
InjRecover ==
    /\ inj.pc = "persist" /\ ftime = inj.wake
    /\ bus' = bus_send(bus, subscribed,
                       FaultEvent("Recover", inj.fault_id, 0, 0, ""))
    /\ published' = Append(published,
                           [ev |-> FaultEvent("Recover", inj.fault_id, 0, 0, ""),
                            at |-> ftime])
    /\ inj' = [inj EXCEPT !.pc = "wait", !.started = ftime,
                          !.deadline = wait_deadline(ftime, ftime),
                          !.wake = wait_deadline(ftime, ftime)]
    /\ UNCHANGED <<ftime, fs, acks, emer, stalls, closed, recovery_log, ack_log,
                   fcyc, fdrain>>
    /\ UNCHANGED <<coreVars, frameVars, aeadVars, restVars>>

\* the injector that goes on waiting after the episode is over
inj_still_waiting == inj

\* the injector goes back to the top of its loop at instant ftime
inj_next_tick == [inj EXCEPT !.pc = "tick", !.wake = MaxOf({inj.next_tick, ftime})]

\* time::timeout(remaining, ack_rx.recv()) returned Ok(Some(ack))
InjRecv ==
    /\ inj.pc = "wait" /\ acks # <<>> /\ ftime <= inj.deadline
    /\ acks' = Tail(acks)
    /\ IF ack_matches(Head(acks), inj.fault_id)
       THEN \E rec_ms \in {ftime - inj.started} :
              /\ recovery_log' =
                     Append(recovery_log,
                            recovery_row(inj.fault_id, Head(acks).component, rec_ms,
                                         aborted_at(rec_ms), ftime))
              /\ IF aborted_at(rec_ms)
                 THEN /\ bus' = bus_send(bus, subscribed,
                                         FaultEvent("Abort", NoFault, 0, 0, "recovery > 200ms"))
                      /\ published' =
                             Append(published,
                                    [ev |-> FaultEvent("Abort", NoFault, 0, 0, "recovery > 200ms"),
                                     at |-> ftime])
                 ELSE UNCHANGED <<bus, published>>
              /\ inj' = inj_next_tick
       ELSE /\ inj' = [inj EXCEPT !.discarded = @ + 1,
                                  !.deadline = wait_deadline(inj.started, ftime),
                                  !.wake = wait_deadline(inj.started, ftime)]
            /\ UNCHANGED <<bus, published, recovery_log>>
    /\ UNCHANGED <<ftime, fs, emer, stalls, closed, ack_log, fcyc, fdrain>>
    /\ UNCHANGED <<coreVars, frameVars, aeadVars, restVars>>

\* Instant::now() < deadline fails with no recovery: the row "unknown" and
\* Abort "recovery timeout"
InjTimeout ==
    /\ inj.pc = "wait" /\ ftime >= inj.deadline
    /\ recovery_log' = Append(recovery_log,
                              recovery_row(inj.fault_id, "unknown", TIMEOUT_ROW_MS,
                                           TRUE, ftime))
    /\ bus' = bus_send(bus, subscribed,
                       FaultEvent("Abort", NoFault, 0, 0, "recovery timeout"))
    /\ published' = Append(published,
                           [ev |-> FaultEvent("Abort", NoFault, 0, 0, "recovery timeout"),
                            at |-> ftime])
    /\ inj' = inj_next_tick
    /\ UNCHANGED <<ftime, fs, acks, emer, stalls, closed, ack_log, fcyc, fdrain>>
    /\ UNCHANGED <<coreVars, frameVars, aeadVars, restVars>>

\* the priming tick of sensor s, last_start, and faults::subscribe()
FsPrime(s) ==
    /\ fs[s].pc = "spawned" /\ ftime = fs[s].wake
    /\ fs' = [fs EXCEPT ![s] = [@ EXCEPT !.pc = "top",
                                         !.last_start = ftime,
                                         !.due = ftime + sampling_interval_ms(s),
                                         !.wake = ftime]]
    /\ UNCHANGED <<ftime, inj, bus, acks, emer, stalls, closed, published,
                   recovery_log, ack_log, fcyc, fdrain>>
    /\ UNCHANGED <<coreVars, frameVars, aeadVars, restVars>>

\* the first pass through the top of the loop: the drain of fault events
\* before the first ticker.tick().await
FsTop(s) ==
    /\ fs[s].pc = "top" /\ ftime = fs[s].wake
    /\ \E d \in {drain(s, fs[s], bus[s], ftime, <<>>, <<>>)} :
         /\ fs' = [fs EXCEPT ![s] = [d.st EXCEPT !.pc = "tick", !.wake = d.st.due]]
         /\ bus' = [bus EXCEPT ![s] = <<>>]
         /\ acks' = acks \o d.acks
         /\ ack_log' = ack_log \o d.acks
         /\ fdrain' = [s |-> s, at |-> ftime, trace |-> d.trace]
    /\ UNCHANGED <<ftime, inj, emer, stalls, closed, published, recovery_log, fcyc>>
    /\ UNCHANGED <<coreVars, frameVars, aeadVars, restVars>>

\* the rest of a cycle of sensor s begun at start, from the return of
\* tx.send(r).await to the next ticker.tick().await: the bookkeeping, the
\* safety alert, and the drain of fault events at the top of the loop
FsFinish(s, st, start, send_ok) ==
    \E ready_tx \in {paused(s, st, start) \/ channel} :
    \E d \in {drain(s, IF ready_tx THEN end_cycle(s, st, start, send_ok)
                        ELSE skip_cycle(st, start),
                   bus[s], ftime, <<>>, <<>>)} :
      /\ fs' = [fs EXCEPT ![s] = [d.st EXCEPT !.pc = "tick",
                                              !.wake = MaxOf({d.st.due, ftime})]]
      /\ bus' = [bus EXCEPT ![s] = <<>>]
      /\ acks' = acks \o d.acks
      /\ ack_log' = ack_log \o d.acks
      /\ emer' = IF ready_tx /\ ~paused(s, st, start) /\ alert(s, st, start, send_ok)
                 THEN try_send(emer, thermal_alert) ELSE emer
      /\ fcyc' = IF ready_tx THEN cycle_made(s, st, start, send_ok, ftime)
                 ELSE cycle_skipped(s, st, start, ftime)
      /\ fdrain' = [s |-> s, at |-> ftime, trace |-> d.trace]

\* ticker.tick().await of sensor s returned: a cycle that never waits
\* runs to the end; one that sleeps (thermal delay) or waits for a slot of
\* the ingress channel is left blocked
FsCycle(s, stall) ==
    /\ fs[s].pc = "tick" /\ ftime = fs[s].wake
    /\ \E st \in {[fs[s] EXCEPT !.due = next_due(s, fs[s], ftime)]} :
       \E wait \in {IF paused(s, st, ftime) THEN 0
                     ELSE stall + (IF delayed(s, st, ftime) THEN st.extra_delay_ms ELSE 0)} :
         /\ (paused(s, st, ftime) \/ ~channel) => stall = 0
         /\ stalls' = stalls + (IF stall > 0 THEN 1 ELSE 0)
         /\ IF wait = 0
            THEN FsFinish(s, st, ftime, ~closed)
            ELSE /\ fs' = [fs EXCEPT ![s] = [st EXCEPT !.pc = "blocked",
                                                       !.start = ftime,
                                                       !.wake = ftime + wait]]
                 /\ UNCHANGED <<bus, acks, ack_log, emer, fcyc, fdrain>>
    /\ UNCHANGED <<ftime, inj, closed, published, recovery_log>>
    /\ UNCHANGED <<coreVars, frameVars, aeadVars, restVars>>

\* the sleep is over or the ingress channel has taken the reading
FsResume(s) ==
    /\ fs[s].pc = "blocked" /\ ftime = fs[s].wake
    /\ FsFinish(s, fs[s], fs[s].start, ~closed)
    /\ UNCHANGED <<ftime, inj, stalls, closed, published, recovery_log>>
    /\ UNCHANGED <<coreVars, frameVars, aeadVars, restVars>>

\* the runtime polls the ticker of sensor s JitterStep ms later
FsLate(s) ==
    /\ fs[s].pc = "tick" /\ ftime = fs[s].wake
    /\ fs[s].wake + JitterStep - fs[s].due <= MaxJitter
    /\ fs' = [fs EXCEPT ![s].wake = @ + JitterStep]
    /\ UNCHANGED <<ftime, inj, bus, acks, emer, stalls, closed, published,
                   recovery_log, ack_log, fcyc, fdrain>>
    /\ UNCHANGED <<coreVars, frameVars, aeadVars, restVars>>

\* the batcher task has ended: the receiver of the ingress channel is
\* dropped and every tx.send(r).await fails from now on
IngressClose ==
    /\ ~closed
    /\ closed' = TRUE
    /\ UNCHANGED <<ftime, inj, fs, bus, acks, emer, stalls, published,
                   recovery_log, ack_log, fcyc, fdrain>>
    /\ UNCHANGED <<coreVars, frameVars, aeadVars, restVars>>

\* no task of ss, nor the injector when it runs, can take a step at
\* ftime: time moves to the earliest wake-up
FAdvance(ss, wakes) ==
    /\ \A w \in wakes : w > ftime
    /\ ~(inj.pc = "wait" /\ acks # <<>>)
    /\ ftime' = MinOf(wakes)
    /\ UNCHANGED <<inj, fs, bus, acks, emer, stalls, closed, published,
                   recovery_log, ack_log, fcyc, fdrain>>
    /\ UNCHANGED <<coreVars, frameVars, aeadVars, restVars>>

\* the injector has published MaxFaults faults and closed the last episode
injector_done == inj.pc = "tick" /\ inj.which >= MaxFaults

NextFault ==
    \/ InjTick
    \/ InjRecover
    \/ InjRecv
    \/ InjTimeout
    \/ \E s \in FSensors : FsPrime(s)
    \/ \E s \in FSensors : FsTop(s)
    \/ \E s \in FSensors : \E stall \in stall_choices(s) : FsCycle(s, stall)
    \/ \E s \in FSensors : FsResume(s)
    \/ ~injector_done /\ FAdvance(FSensors, {fs[s].wake : s \in FSensors} \cup {inj.wake})

SpecFault == InitFault /\ [][NextFault]_vars

\* the tokio runtime runs every task whose timer has fired or whose
\* channel holds a message, and the clock does not stop; the ingress
\* channel keeps a sensor waiting at most MaxLiveStalls times, enough for
\* cycles ending by ACK and by the deadline.
stall_choices_live(s) ==
    {0} \cup (IF stalls < MaxLiveStalls /\ s = stall_target /\ episode_near
              THEN {StallLong} ELSE {})

NextFaultLive ==
    \/ InjTick
    \/ InjRecover
    \/ InjRecv
    \/ InjTimeout
    \/ \E s \in FSensors : FsPrime(s)
    \/ \E s \in FSensors : FsTop(s)
    \/ \E s \in FSensors : \E stall \in stall_choices_live(s) : FsCycle(s, stall)
    \/ \E s \in FSensors : FsResume(s)
    \/ ~injector_done /\ FAdvance(FSensors, {fs[s].wake : s \in FSensors} \cup {inj.wake})

InitFaultLive ==
    /\ InitCore(new(0), 0, 0)
    /\ InitFramer /\ InitAead /\ InitRest
    /\ InitFaults(0)

SpecFaultLive == InitFaultLive /\ [][NextFaultLive]_vars /\ WF_vars(NextFaultLive)

\* the thermal sensor alone, with late ticks and an ingress channel that
\* may close, for MaxCycles cycles
InitThermal == InitTasks(new(0), 0)

NextThermal ==
    \/ FsPrime("thermal")
    \/ FsTop("thermal")
    \/ fs["thermal"].seq < MaxCycles /\ FsCycle("thermal", 0)
    \/ fs["thermal"].seq < MaxCycles /\ FsLate("thermal")
    \/ IngressClose
    \/ fs["thermal"].seq < MaxCycles /\ FAdvance({"thermal"}, {fs["thermal"].wake})

SpecThermal == InitThermal /\ [][NextThermal]_vars

\* the sensors spawned before the telemetry pipeline, which may be
\* started at any time: spawn_batcher sets CHANNEL
InitUnready ==
    /\ InitCore(new(0), 0, 0)
    /\ InitFramer /\ InitAead /\ InitFaults(0)
    /\ InitRestWith(FALSE)

ChannelSet ==
    /\ ~channel
    /\ channel' = TRUE
    /\ UNCHANGED <<coreVars, frameVars, aeadVars, faultVars, made, consVars>>

NextUnready ==
    \/ \E s \in FSensors : FsPrime(s)
    \/ \E s \in FSensors : FsTop(s)
    \/ \E s \in FSensors : fs[s].seq < MaxCycles /\ FsCycle(s, 0)
    \/ fs["thermal"].seq < MaxCycles /\ FsLate("thermal")
    \/ ChannelSet
    \/ IngressClose
    \/ /\ \E s \in FSensors : fs[s].seq < MaxCycles
       /\ FAdvance(FSensors, {fs[s].wake : s \in FSensors})

SpecUnready == InitUnready /\ [][NextUnready]_vars

(***************************************************************************)
(* ThermalSensor::create_reading called on any sensor and temperature      *)
(***************************************************************************)
InitReading == InitTasks(new(0), 0)

CreateReading(self, t, n) ==
    /\ ~made.called
    /\ made' = [called |-> TRUE, sensor |-> self, temperature_celsius |-> t,
                reading |-> create_reading(self, t, n)]
    /\ UNCHANGED <<coreVars, frameVars, aeadVars, faultVars, consVars, channel>>

NextReading ==
    \E self \in ThermalSensors : \E t \in Temperatures : \E n \in SeqNums :
        CreateReading(self, t, n)

SpecReading == InitReading /\ [][NextReading]_vars

(***************************************************************************)
(* Properties of the priority buffer (of SpecBuffer)                       *)
(***************************************************************************)
Concat3(g) == g.hi \o g.im \o g.lo

\* the reading the driver passed to the push recorded in o
PushedReading(o) == [sensor_id |-> 0, sequence_number |-> o.n, priority |-> o.priority]

IsSuffix(s, t) == Len(s) <= Len(t) /\ s = SubSeq(t, Len(t) - Len(s) + 1, Len(t))

\* C1: for any capacity N >= 0, after every sequence of push and pop_many
\* calls the number of stored readings |hi|+|im|+|lo| is at most N.
C1_CapacityNeverExceeded == len(buf) <= buf.capacity

\* C2: a reading of hi is evicted only by a push of an emergency/critical
\* reading; a push of a normal or important reading never removes one
\* (stated for capacities N >= 1, so that it does not rest on capacity 0).
C2_HiEvictedOnlyByHi ==
    (buf.capacity >= 1 /\ op.name = "push" /\ res = Dropped("Critical"))
        => op.priority \in {"Emergency", "Critical"}

\* the bucket a push on a full buffer is to evict from: the lowest
\* non-empty one in the order lo, im, hi
LowestNonEmpty(g) ==
    IF g.lo # <<>> THEN "lo" ELSE IF g.im # <<>> THEN "im" ELSE "hi"

AppendTo(g, r) ==
    CASE r.priority \in {"Emergency", "Critical"} -> [g EXCEPT !.hi = Append(@, r)]
      [] r.priority = "Important" -> [g EXCEPT !.im = Append(@, r)]
      [] OTHER -> [g EXCEPT !.lo = Append(@, r)]

PushContract(g, r, g2, result) ==
    IF len(g) < g.capacity
    THEN /\ result = Accepted
         /\ g2 = AppendTo(g, r)
    ELSE LET b == LowestNonEmpty(g)
         IN /\ result.tag = "Dropped"
            /\ result.dropped_count = 1
            /\ result.dropped_priority =
                   (CASE b = "lo" -> "Normal" [] b = "im" -> "Important" [] OTHER -> "Critical")
            /\ len(g2) = len(g)
            /\ g2 = AppendTo(CASE b = "lo" -> [g EXCEPT !.lo = Tail(@)]
                               [] b = "im" -> [g EXCEPT !.im = Tail(@)]
                               [] OTHER -> [g EXCEPT !.hi = Tail(@)], r)

\* C3: push on a buffer with total < N returns Accepted, removes nothing and
\* appends r at the back of its bucket; push on a full buffer removes exactly
\* the oldest reading of the lowest non-empty bucket, appends r and returns
\* Dropped with dropped_count = 1 and the evicted bucket's priority.
C3_PushContract ==
    [][op'.name = "push" => PushContract(buf, PushedReading(op'), buf', res')]_vars

\* rank of the bucket a reading is stored in
Rank(r) == target_q(r.priority)

\* C4: pop_many(k) returns exactly min(k, total) readings and removes exactly
\* those; hi readings precede im readings, which precede lo readings; the
\* readings of one bucket come out in the order they were pushed; the first
\* reading returned is emergency/critical whenever one is stored and k >= 1.
C4_PopManyContract ==
    [][op'.name = "pop_many" =>
        LET all == Concat3(buf)
            m == Min(op'.n, Len(all))
        IN /\ Len(out') = m
           /\ out' = SubSeq(all, 1, m)
           /\ Concat3(buf') = SubSeq(all, m + 1, Len(all))
           /\ IsSuffix(buf'.hi, buf.hi) /\ IsSuffix(buf'.im, buf.im) /\ IsSuffix(buf'.lo, buf.lo)
           /\ \A i, j \in 1..m : i < j =>
                 /\ Rank(out'[i]) <= Rank(out'[j])
                 /\ Rank(out'[i]) = Rank(out'[j])
                        => out'[i].sequence_number < out'[j].sequence_number
           /\ (buf.hi # <<>> /\ op'.n >= 1) => out'[1].priority \in {"Emergency", "Critical"}
    ]_vars

\* a pop_many(2) that returned a hi reading before a lo reading and left
\* readings behind
C4_Witness ==
    /\ op.name = "pop_many" /\ op.n = 2
    /\ Len(out) = 2
    /\ Rank(out[1]) = 0 /\ Rank(out[2]) = 2
    /\ out[1].sequence_number > out[2].sequence_number
    /\ len(buf) >= 1

(***************************************************************************)
(* Properties of the pipeline (of Spec)                                    *)
(***************************************************************************)
ReadyEvents == {"Ready", "ReadyPrepLate", "ReadyDegraded"}

\* readings put on the socket so far
Sent == UNION {SetOf(socket[i]) : i \in 1..Len(socket)}

\* the step in which send calls pre_send and reacts to the gate
GateStep == bpc = "gate" /\ bpc' # "gate"

\* C5: no producer ever blocks on telemetry ingress: with the ingress
\* channel full a sensor's send drops the reading and the sensor goes on to
\* its next cycle, so no sensor task is ever suspended inside send.
C5_NoProducerBlocks == \A s \in Sensors : sensor[s].pc # "send"

\* C6: a batch is put on the socket only when the pre_send of that attempt
\* returned Ready, ReadyPrepLate or ReadyDegraded; after MissedInit or
\* NotInWindow the attempt ends with nothing transmitted.
C6_SendOnlyWhenGateReady ==
    [][/\ socket' # socket => (bpc = "tx" /\ gate \in ReadyEvents)
       /\ (GateStep /\ gate' \in {"MissedInit", "NotInWindow"})
             => (bpc' = "idle" /\ socket' = socket)
       /\ (bpc # "tx" /\ bpc' = "tx") => (GateStep /\ gate' \in ReadyEvents)]_vars

\* a batch was transmitted after pre_send returned Ready
C6_Witness == bpc = "degrade" /\ gate = "Ready" /\ Len(socket) >= 1

C8_TransmitOnlyWhileReady ==
    [][socket' # socket => link.state = "Ready"]_vars

\* C9: pre_send in Opening with now - opened_at > 5 ms and init_started
\* false returns MissedInit and closes the link; MissedInit is returned at
\* most once per open(), every later pre_send before the next open()
\* returning NotInWindow.
C9_MissedInitOncePerOpen ==
    [][GateStep =>
        /\ (link.state = "Opening" /\ now - link.opened_at > INIT_MS /\ ~link.init_started)
              => (gate' = "MissedInit" /\ link' = Closed)
        /\ gate' = "MissedInit" => missed = 0
        /\ missed >= 1 => gate' = "NotInWindow"]_vars

\* after a MissedInit, a second pre_send in the same window returned
\* NotInWindow
C9_Witness ==
    /\ missed = 1 /\ vpc = "window"
    /\ bpc = "idle" /\ gate = "NotInWindow" /\ txq = 1

\* C10: pre_send called in state Closed returns NotInWindow and leaves the
\* downlink state Closed.
C10_ClosedStaysClosed ==
    [][(GateStep /\ link.state = "Closed")
          => (gate' = "NotInWindow" /\ link' = Closed)]_vars

\* a pre_send on the closed link returned NotInWindow
C10_Witness ==
    /\ bpc = "idle" /\ gate = "NotInWindow" /\ txq = 1
    /\ link = Closed /\ vpc = "tick"

(***************************************************************************)
(* Properties of the downlink (of SpecLink)                                *)
(***************************************************************************)
\* the MissedInit condition of pre_send, on the state l at time t
MissedInitCond(l, t) == t - l.opened_at > INIT_MS /\ ~l.init_started

\* C11: pre_send in state Opening, when the MissedInit condition does not
\* hold, sets the state to Ready with opened_at unchanged, ready_at = now
\* and degraded = false, and returns Ready, or ReadyPrepLate when
\* ready_at - opened_at > 30 ms.
C11_OpeningBecomesReady ==
    (/\ call.name = "pre_send"
     /\ call.before.state = "Opening"
     /\ ~MissedInitCond(call.before, call.at))
        => /\ link = [state |-> "Ready", opened_at |-> call.before.opened_at,
                      ready_at |-> call.at, degraded |-> FALSE]
           /\ gate = IF link.ready_at - link.opened_at > PREP_MS
                     THEN "ReadyPrepLate" ELSE "Ready"

\* a pre_send 5 ms after open() made the link Ready
C11_Witness ==
    /\ call.name = "pre_send" /\ call.before.state = "Opening"
    /\ link.state = "Ready" /\ link.ready_at = link.opened_at + INIT_MS
    /\ gate = "Ready"

\* C12: pre_send in state Ready never changes the state and returns
\* ReadyPrepLate if ready_at - opened_at > 30 ms, otherwise ReadyDegraded if
\* the degraded flag is set, otherwise Ready.
C12_ReadyUnchanged ==
    (call.name = "pre_send" /\ call.before.state = "Ready")
        => /\ link = call.before
           /\ gate = IF call.before.ready_at - call.before.opened_at > PREP_MS
                     THEN "ReadyPrepLate"
                     ELSE IF call.before.degraded THEN "ReadyDegraded" ELSE "Ready"

\* a pre_send on a degraded Ready link, more than 30 ms after open(),
\* returned ReadyDegraded
C12_Witness ==
    /\ call.name = "pre_send" /\ call.before.state = "Ready"
    /\ link.state = "Ready" /\ link.degraded
    /\ call.at - link.opened_at > PREP_MS
    /\ gate = "ReadyDegraded"

\* C13: set_degraded(on) in state Ready changes only the degraded flag
\* (opened_at and ready_at are kept); in Closed or Opening it changes
\* nothing; and calling it twice with the same argument leaves the same
\* state as calling it once.
C13_SetDegradedOnlyFlag ==
    call.name = "set_degraded"
        => /\ call.before.state = "Ready"
                => link = [call.before EXCEPT !.degraded = call.on]
           /\ call.before.state # "Ready" => link = call.before
           /\ (call.pname = "set_degraded" /\ call.pon = call.on)
                => link = call.before

\* set_degraded(true) was called twice in a row on a Ready link whose
\* ready_at differs from its opened_at
C13_Witness ==
    /\ call.name = "set_degraded" /\ call.on
    /\ call.pname = "set_degraded" /\ call.pon
    /\ link.state = "Ready" /\ link.degraded
    /\ link.ready_at > link.opened_at

IsThermal(j) == j.task_idx = USIZE_MAX

\* the RM priority of a job, a thermal job counting as 0
RmPrio(j) == IF IsThermal(j) THEN 0 ELSE TaskTable[j.task_idx].rm_priority

\* a comes no later than b in the order thermal first, then ascending
\* rm_priority, then ascending deadline
RmOrdered(a, b) ==
    \/ IsThermal(a) /\ ~IsThermal(b)
    \/ /\ IsThermal(a) = IsThermal(b)
       /\ \/ RmPrio(a) < RmPrio(b)
          \/ RmPrio(a) = RmPrio(b) /\ a.deadline <= b.deadline

\* C15: a pending thermal signal observed at a scheduling check preempts
\* the running job whenever that job is not thermal, and a running thermal
\* job is never preempted: not by a periodic release and not by a further
\* thermal signal.
C15_ThermalPreemptsAndIsNeverPreempted ==
    sev.checked =>
        /\ (sev.injected /\ ~IsThermal(sev.running)) => sev.preempted # NoJob
        /\ IsThermal(sev.running) => sev.preempted = NoJob

\* C16: when a thermal preemption interrupts a running periodic job, that
\* job is put back in the ready queue with its preemptions counter
\* increased by exactly 1 and with remaining_ms as it is after the slice
\* just completed; task_idx, release, deadline and seq are unchanged.
C16_PreemptedJobPutBack ==
    (/\ sev.preempted # NoJob
     /\ ~IsThermal(sev.running)
     /\ IsThermal(sev.dispatched))
        => /\ sev.preempted = [sev.running EXCEPT !.remaining_ms = @ - 1,
                                                  !.preemptions = @ + 1]
           /\ Cardinality({k \in 1..Len(ready) : ready[k] = sev.preempted}) = 1
           /\ \A k \in 1..Len(ready) :
                 (ready[k].task_idx = sev.running.task_idx /\ ready[k].seq = sev.running.seq)
                    => ready[k] = sev.preempted

\* a thermal signal interrupted data_compression after 2 ms of its 6 ms
C16_Witness ==
    /\ sev.preempted # NoJob /\ IsThermal(sev.dispatched)
    /\ sev.running.task_idx = 2
    /\ sev.preempted.remaining_ms = Ms(4) /\ sev.preempted.preemptions = 1
    /\ spc = "run" /\ IsThermal(job)

\* C17: whenever the scheduler dispatches a job, no ready job has a
\* strictly smaller rm_priority value than the dispatched one, a thermal
\* job counting as priority 0.
C17_DispatchHighestPriority ==
    sev.dispatched # NoJob =>
        /\ sev.dispatched = Head(sev.queue)
        /\ ready = Tail(sev.queue)
        /\ \A k \in 1..Len(ready) : RmPrio(sev.dispatched) <= RmPrio(ready[k])

\* antenna_alignment was dispatched at the top of the loop with
\* data_compression ready
C17_Witness ==
    /\ sev.dispatched.task_idx = 1 /\ sev.preempted = NoJob
    /\ \E k \in 1..Len(ready) : ready[k].task_idx = 2
    /\ spc = "run"

\* C18: each time the scheduler takes the head of the ready queue the queue
\* is ordered with thermal jobs first, then by ascending rm_priority, then
\* by ascending deadline.
C18_QueueOrderedWhenHeadTaken ==
    \A a, b \in 1..Len(sev.queue) :
        a < b => RmOrdered(sev.queue[a], sev.queue[b])

\* the head was taken of a queue with a thermal job, two antenna_alignment
\* jobs of different deadlines, the earlier one pushed back by the
\* preemption, and a data_compression job
C18_Witness ==
    /\ Len(sev.queue) >= 4
    /\ IsThermal(sev.queue[1])
    /\ sev.queue[2] = sev.preempted
    /\ sev.queue[2].task_idx = 1 /\ sev.queue[3].task_idx = 1
    /\ sev.queue[2].deadline < sev.queue[3].deadline
    /\ sev.queue[Len(sev.queue)].task_idx = 2

\* C19: strict periodic release: the k-th released job of a periodic task
\* with period p created at t0 = 0 has seq = k, release = k * p,
\* remaining_ms = wcet_ms and preemptions = 0, whatever the instant at
\* which the release is observed; each release advances next_release by
\* exactly p and next_deadline by exactly the relative deadline.
C19_StrictPeriodicRelease ==
    \A n \in 1..Len(sev.released) :
        LET e == sev.released[n]
            j == e.job
            i == j.task_idx
            p == TaskTable[i].period_ms * SLICES_PER_MS
        IN /\ j.seq = e.task.seq + 1
           /\ j.release = j.seq * p
           /\ e.at >= j.release
           /\ j.remaining_ms = TaskTable[i].wcet_ms * SLICES_PER_MS
           /\ j.preemptions = 0
           /\ tasks[i].seq = j.seq
           /\ tasks[i].next_release = e.task.next_release + p
           /\ tasks[i].next_deadline = e.task.next_deadline + e.task.deadline

\* the third job of antenna_alignment was released when observed more than
\* a period late
C19_Witness ==
    \E n \in 1..Len(sev.released) :
        /\ sev.released[n].job.task_idx = 1
        /\ sev.released[n].job.seq = 3
        /\ sev.released[n].at > sev.released[n].job.release + Ms(50)

\* C20: every periodic job's absolute deadline is its release plus the
\* task's relative deadline (the period), and a deadline violation is
\* reported for a completed periodic job exactly when it finished later
\* than release + relative deadline.
C20_DeadlineIsReleasePlusPeriod ==
    /\ \A n \in 1..Len(sev.released) :
          sev.released[n].job.deadline
              = sev.released[n].job.release + sev.released[n].task.deadline
    /\ (sev.completed # NoJob /\ ~IsThermal(sev.completed))
          => (row.violation
                <=> sev.finish > sev.completed.release
                                   + Ms(TaskTable[sev.completed.task_idx].period_ms))

(***************************************************************************)
(* Properties of the AEAD envelope (of SpecAead)                           *)
(***************************************************************************)
AuthError == "authentication/decryption failed"

\* the bytes reached open_from_bytes as seal_to_bytes returned them and
\* were opened under the context that sealed them
OpenedUnchanged == opened.tag # "None" /\ changed = "none" /\ opener = sealer

\* C27: AEAD round trip. For every packet, whatever its header fields, and
\* every context, open_from_bytes(seal_to_bytes(P)) under the same context
\* succeeds and returns a packet equal to P in header and payload.
C27_AeadRoundTrip ==
    OpenedUnchanged => opened.tag = "Ok" /\ opened.packet = packet

\* C28: open_from_bytes on a frame whose ClearHeader key_id differs from
\* the context's key_id fails with the key id mismatch error, which is not
\* the authentication error, and cipher.decrypt is not called on it.
C28_KeyIdMismatchBeforeDecryption ==
    (/\ opened.tag # "None"
     /\ wire.prefix /\ wire.complete /\ wire.unparsed = {}
     /\ wire.frame.header.key_id # opener.key_id)
    => /\ opened.tag = "key id mismatch"
       /\ opened.tag # AuthError
       /\ ~opened.decrypted

\* a frame sealed with key_id 1 and opened with the same key under another
\* key_id, and one whose key_id byte was changed on the way
C28_Witness ==
    /\ opened.tag = "key id mismatch"
    /\ opener.key = sealer.key
    /\ opener.key_id # sealer.key_id
    /\ changed = "none"
    /\ packet.header.protocol_version = PROTOCOL_VERSION

\* one byte of the ClearHeader or of the ciphertext was changed, and the
\* frame was opened under the context that sealed it
OpenedChanged ==
    /\ opened.tag # "None"
    /\ changed \in DOMAIN HeaderValues \cup {"ciphertext"}
    /\ opener = sealer

\* C29 as claimed: changing any single byte of the ciphertext or of the
\* ClearHeader of a sealed frame makes open fail with the authentication
\* error, not with a parse error, a key id error or a success.
C29_AnyByteChangeFailsAuthentication ==
    OpenedChanged => opened.tag = AuthError

\* C29 as amended: such a change always makes open fail: with the frame
\* deserialization error when the JSON text of the frame no longer
\* deserializes, else with the key id mismatch error when the changed byte
\* is in key_id, else with the authentication error.
C29_AnyByteChangeIsRejected ==
    OpenedChanged =>
        opened.tag = IF wire.unparsed # {} THEN "frame deserialization"
                     ELSE IF changed = "key_id" THEN "key id mismatch"
                     ELSE AuthError

\* a changed sequence_number of a packet that would have opened: rejected
\* by the authentication of the clear header
C29_Witness ==
    /\ OpenedChanged
    /\ changed = "sequence_number"
    /\ wire.unparsed = {}
    /\ packet.header.protocol_version = PROTOCOL_VERSION
    /\ packet.payload = "finite"
    /\ opened.tag = AuthError

(***************************************************************************)
(* Properties of the framing (of SpecFrame)                                *)
(***************************************************************************)
\* the length the first four bytes of b declare, big-endian
Declared(b) == ((b[1] * 256 + b[2]) * 256 + b[3]) * 256 + b[4]

\* C30: deframe(frame(x) followed by t) succeeds and returns exactly
\* frame(x), the 4-byte big-endian length followed by x; deframe fails on a
\* buffer shorter than 4 bytes and on one shorter than 4 plus the declared
\* length.
C30_DeframeReturnsTheFrame ==
    fop.name = "deframe" =>
        /\ fop.from = "frame" =>
              /\ fres.tag = "Ok"
              /\ fres.bytes = <<0, 0, 0, Len(fop.data)>> \o fop.data
              /\ fbuf = fres.bytes \o fop.trail
        /\ Len(fbuf) < 4 => fres.tag # "Ok"
        /\ (Len(fbuf) >= 4 /\ Len(fbuf) < 4 + Declared(fbuf)) => fres.tag # "Ok"

\* a frame of two or more bytes with bytes behind it, deframed
C30_Witness ==
    /\ fop.name = "deframe"
    /\ fop.from = "frame"
    /\ Len(fop.data) >= 2
    /\ Len(fop.trail) >= 1
    /\ fres.tag = "Ok"
(***************************************************************************)
(* Properties of the fault bus (of SpecFault)                              *)
(***************************************************************************)
Recovers(id) ==
    {j \in DOMAIN published :
        published[j].ev.kind = "Recover" /\ published[j].ev.fault_id = id}

Faults(id) ==
    {j \in DOMAIN published :
        /\ published[j].ev.kind \in {"ThermalDelay", "PowerCorrupt", "AttitudePause"}
        /\ published[j].ev.fault_id = id}

\* the instant Recover was published for fault id
RecoverAt(id) == published[CHOOSE j \in Recovers(id) : TRUE].at

\* the instant fault id was published
FaultAt(id) == published[CHOOSE j \in Faults(id) : TRUE].at

AbortsAt(t) ==
    {j \in DOMAIN published : published[j].ev.kind = "Abort" /\ published[j].at = t}

RowsOf(id) == {i \in DOMAIN recovery_log : recovery_log[i].fault_id = id}

\* the injector is no longer waiting for the recovery of fault id
EpisodeClosed(id) == inj.fault_id # id \/ inj.pc = "tick"

\* C21: a matching FaultAck that arrives before the 500 ms deadline makes
\* the injector log exactly one recovery row for the fault, with the
\* component of the ACK, recovery_ms the time since Recover, and
\* aborted = (recovery_ms > 200); Abort is published at that instant if and
\* only if recovery_ms > 200.
C21_MatchingAckClosesTheFault ==
    /\ \A i \in DOMAIN recovery_log :
          recovery_log[i].component # "unknown" =>
            /\ Recovers(recovery_log[i].fault_id) # {}
            /\ recovery_log[i].recovery_ms =
                   recovery_log[i].at - RecoverAt(recovery_log[i].fault_id)
            /\ recovery_log[i].recovery_ms <= RECOVERY_DEADLINE_MS
            /\ recovery_log[i].aborted = (recovery_log[i].recovery_ms > 200)
            /\ (AbortsAt(recovery_log[i].at) # {}) = (recovery_log[i].recovery_ms > 200)
            /\ Cardinality(AbortsAt(recovery_log[i].at)) <= 1
            /\ \E k \in DOMAIN ack_log :
                  /\ ack_log[k].fault_id = recovery_log[i].fault_id
                  /\ ack_log[k].component = recovery_log[i].component
    /\ \A k \in DOMAIN ack_log :
          /\ Recovers(ack_log[k].fault_id) # {}
          /\ ack_log[k].recovered_ts_ms < RecoverAt(ack_log[k].fault_id) + 500
          /\ EpisodeClosed(ack_log[k].fault_id)
          => /\ Cardinality(RowsOf(ack_log[k].fault_id)) = 1
             /\ \A i \in RowsOf(ack_log[k].fault_id) :
                   recovery_log[i].component = ack_log[k].component

\* one fault recovered within 200 ms and one recovered later, before the
\* deadline
C21_Witness ==
    /\ \E i \in DOMAIN recovery_log :
          /\ recovery_log[i].component # "unknown"
          /\ recovery_log[i].recovery_ms <= 200
          /\ ~recovery_log[i].aborted
    /\ \E i \in DOMAIN recovery_log :
          /\ recovery_log[i].component # "unknown"
          /\ recovery_log[i].recovery_ms > 200
          /\ recovery_log[i].aborted

\* a FaultAck for fault id was sent no later than instant t
AckedBy(id, t) ==
    \E k \in DOMAIN ack_log :
        ack_log[k].fault_id = id /\ ack_log[k].recovered_ts_ms <= t

\* C22: when no FaultAck with the fault's id arrives within 500 ms of
\* Recover, the injector stops waiting at the deadline, 500 ms after
\* Recover, however many ACKs with other ids it discarded; it logs one row
\* with component "unknown", recovery_ms 1000 and aborted true, and
\* publishes Abort "recovery timeout". Discarding an ACK does not move the
\* deadline.
C22_TimeoutAtTheDeadline ==
    /\ inj.pc = "wait" =>
          /\ inj.deadline = RecoverAt(inj.fault_id) + 500
          /\ ftime <= inj.deadline
    /\ \A i \in DOMAIN recovery_log :
          recovery_log[i].component = "unknown" =>
            /\ recovery_log[i].recovery_ms = 1000
            /\ recovery_log[i].aborted
            /\ recovery_log[i].at = RecoverAt(recovery_log[i].fault_id) + 500
            /\ ~AckedBy(recovery_log[i].fault_id, recovery_log[i].at - 1)
            /\ \E j \in AbortsAt(recovery_log[i].at) :
                  published[j].ev.reason = "recovery timeout"
            /\ Cardinality(AbortsAt(recovery_log[i].at)) = 1
    /\ \A id \in 1..inj.which :
          /\ Recovers(id) # {}
          /\ EpisodeClosed(id)
          /\ ~AckedBy(id, RecoverAt(id) + 500)
          => /\ Cardinality(RowsOf(id)) = 1
             /\ \A i \in RowsOf(id) : recovery_log[i].component = "unknown"

\* a wait that discarded an ACK of an earlier fault and then timed out
C22_Witness ==
    /\ inj.pc = "tick"
    /\ inj.discarded >= 1
    /\ \E i \in RowsOf(inj.fault_id) : recovery_log[i].component = "unknown"

\* the duration_ms the injector pairs with each kind of fault
DurationOf(kind) ==
    CASE kind = "ThermalDelay" -> 150
      [] kind = "PowerCorrupt" -> 200
      [] OTHER -> 150

\* C23: for every fault the injector publishes exactly one Recover, with
\* the fault's id, after the fault event and no sooner than duration_ms
\* after it; a recovery row for a fault is written only for an ACK that
\* carries the id of that fault, also when an ACK of another fault was
\* received first.
C23_RecoverAfterDurationAndAcksMatchedById ==
    /\ \A j \in DOMAIN published :
          published[j].ev.kind = "Recover" =>
            /\ Cardinality(Recovers(published[j].ev.fault_id)) = 1
            /\ Cardinality(Faults(published[j].ev.fault_id)) = 1
            /\ \A k \in Faults(published[j].ev.fault_id) :
                  /\ k < j
                  /\ published[j].at >= published[k].at + DurationOf(published[k].ev.kind)
    /\ \A id \in 1..inj.which :
          /\ Cardinality(Faults(id)) = 1
          /\ (inj.fault_id # id \/ inj.pc # "persist") => Recovers(id) # {}
    /\ \A i \in DOMAIN recovery_log :
          recovery_log[i].component # "unknown" =>
            /\ Recovers(recovery_log[i].fault_id) # {}
            /\ RecoverAt(recovery_log[i].fault_id) <= recovery_log[i].at
            /\ \A id \in 1..inj.which :
                  FaultAt(id) <= recovery_log[i].at => id <= recovery_log[i].fault_id
            /\ \E k \in DOMAIN ack_log :
                  /\ ack_log[k].fault_id = recovery_log[i].fault_id
                  /\ ack_log[k].component = recovery_log[i].component
                  /\ ack_log[k].recovered_ts_ms = recovery_log[i].at

\* the ACK of an earlier fault was received first and discarded, then the
\* ACK of the fault in flight was accepted
C23_Witness ==
    /\ inj.pc = "tick"
    /\ inj.discarded >= 1
    /\ \E i \in RowsOf(inj.fault_id) :
          /\ recovery_log[i].component = inj.target
          /\ recovery_log[i].at >= inj.injected_at + inj.duration_ms

\* the sensor's fault state
FaultState(st) == <<st.cur_fault_id, st.until, st.extra_delay_ms>>

\* C24: a sensor that receives Recover with the id of the fault it tracks
\* clears its fault state and sends exactly one FaultAck, with that id and
\* its own component name; a Recover with any other id, or received when
\* no fault is tracked, sends no ACK and leaves the sensor unchanged.
C24_RecoverAckedOnlyByTheTrackingSensor ==
    \A n \in DOMAIN fdrain.trace :
        fdrain.trace[n].ev.kind = "Recover" =>
          IF /\ fdrain.trace[n].before.cur_fault_id # NoFault
             /\ fdrain.trace[n].before.cur_fault_id = fdrain.trace[n].ev.fault_id
          THEN /\ FaultState(fdrain.trace[n].after) = <<NoFault, NoInstant, 0>>
               /\ Len(fdrain.trace[n].acks) = 1
               /\ fdrain.trace[n].acks[1].fault_id = fdrain.trace[n].ev.fault_id
               /\ fdrain.trace[n].acks[1].component = fdrain.s
               /\ \E k \in DOMAIN ack_log : ack_log[k] = fdrain.trace[n].acks[1]
          ELSE /\ fdrain.trace[n].acks = <<>>
               /\ fdrain.trace[n].after = fdrain.trace[n].before

\* a sensor received the Recover of the fault it tracks, in the same drain
\* as an event that is not its own
C24_Witness ==
    /\ \E n \in DOMAIN fdrain.trace :
          /\ fdrain.trace[n].ev.kind = "Recover"
          /\ fdrain.trace[n].before.cur_fault_id = fdrain.trace[n].ev.fault_id
          /\ fdrain.trace[n].before.until # NoInstant
          /\ Len(fdrain.trace[n].acks) = 1
    /\ Len(acks) >= 1
    /\ acks[Len(acks)].component = fdrain.s

\* the AttitudePause faults published before instant t and still within
\* their for_ms at t, when Recover has not yet been published
PausesOver(t) ==
    {j \in DOMAIN published :
        /\ published[j].ev.kind = "AttitudePause"
        /\ published[j].at < t
        /\ t < published[j].at + published[j].ev.for_ms
        /\ \A k \in Recovers(published[j].ev.fault_id) : published[k].at > t}

\* C25: on every tick of the attitude sensor between the publication of an
\* AttitudePause fault and the end of its for_ms, with no Recover yet
\* published, the sensor sends no reading into the ingress channel and its
\* sequence number advances by one.
C25_AttitudeSendsNothingWhilePaused ==
    (fcyc.s = "attitude" /\ PausesOver(fcyc.start) # {}) =>
        /\ ~fcyc.sent
        /\ fs["attitude"].seq = fcyc.seq + 1

(***************************************************************************)
(* Properties of the thermal sensor's miss counter (of SpecThermal)        *)
(***************************************************************************)
\* the cycle is a miss by the absolute deviation from the period
AbsMiss(c) ==
    \/ ~c.send_ok
    \/ c.actual - sampling_interval_ms("thermal") > 1
    \/ sampling_interval_ms("thermal") - c.actual > 1

\* C26: the thermal sensor counts a cycle as a miss when the ingress send
\* failed or |actual - ideal| > 1 ms and resets the count to 0 on any
\* other cycle; the 4th consecutive miss raises the alert and resets the
\* count to 0.
C26_MissOnAbsoluteDeviation ==
    fcyc.s = "thermal" =>
        /\ fcyc.misses_after =
               IF ~AbsMiss(fcyc) THEN 0
               ELSE IF fcyc.misses_before = 3 THEN 0
               ELSE fcyc.misses_before + 1
        /\ fcyc.alert = (AbsMiss(fcyc) /\ fcyc.misses_before = 3)
        /\ fcyc.alert => /\ emer # <<>>
                         /\ emer[Len(emer)] = [severity |-> "High", alert_type |-> "thermal"]

(***************************************************************************)
(* Properties of ThermalSensor::create_reading (of SpecReading)            *)
(***************************************************************************)
\* C40: create_reading(temp) has priority and status emergency iff
\* temp >= emergency_threshold, priority and status critical iff
\* critical_threshold <= temp < emergency_threshold, otherwise priority
\* important with status warning if temp >= 60 and normal if temp < 60;
\* quality is invalid iff temp is outside the closed interval [-50, 150].
C40_ThermalClassification ==
    made.called =>
        /\ (made.reading.priority = "Emergency")
               = (made.temperature_celsius >= made.sensor.emergency_threshold)
        /\ (made.reading.status = "Emergency")
               = (made.temperature_celsius >= made.sensor.emergency_threshold)
        /\ (made.reading.priority = "Critical")
               = (/\ made.sensor.critical_threshold <= made.temperature_celsius
                  /\ made.temperature_celsius < made.sensor.emergency_threshold)
        /\ (made.reading.status = "Critical") = (made.reading.priority = "Critical")
        /\ made.reading.priority \notin {"Emergency", "Critical"} =>
               /\ made.reading.priority = "Important"
               /\ made.reading.status =
                      IF made.temperature_celsius >= 60 THEN "Warning" ELSE "Normal"
        /\ (made.reading.quality = "Invalid")
               = (made.temperature_celsius < 0 - 50 \/ made.temperature_celsius > 150)

(***************************************************************************)
(* Further properties of the downlink (of SpecLink)                        *)
(***************************************************************************)
\* C36: init_started is never true, so in every Ready state of the
\* downlink ready_at - opened_at <= 5 ms, and pre_send never returns
\* ReadyPrepLate.
C36_ReadyWithinInitNeverPrepLate ==
    /\ link.state = "Opening" => ~link.init_started
    /\ link.state = "Ready" => link.ready_at - link.opened_at <= 5
    /\ gate # "ReadyPrepLate"

\* pre_send called on a link that became Ready 5 ms after open, more than
\* 30 ms after open
C36_Witness ==
    /\ call.name = "pre_send"
    /\ call.before.state = "Ready"
    /\ link.state = "Ready"
    /\ link.ready_at - link.opened_at = 5
    /\ call.at - link.opened_at > 30
    /\ gate \in {"Ready", "ReadyDegraded"}

(***************************************************************************)
(* Further properties of the batcher (of Spec)                             *)
(***************************************************************************)
\* C37: the batcher's pending batch never holds more than max_batch
\* readings, and a tick that finds the pending batch non-empty goes on to
\* send it without popping anything from the buffer.
C37_BatchBoundedAndDeferredBatchSentFirst ==
    /\ [](Len(batch) <= max_batch)
    /\ [][(bpc = "idle" /\ bpc' # "idle" /\ batch # <<>>) =>
            (buf' = buf /\ batch' = batch /\ bpc' = "fill")]_vars

\* a tick found the batch deferred by NotInWindow while the buffer held
\* readings it could have popped
C37_Witness ==
    /\ bpc = "fill"
    /\ gate = "NotInWindow"
    /\ batch # <<>>
    /\ Len(batch) = max_batch
    /\ len(buf) > 0

(***************************************************************************)
(* Conservation of readings (of SpecShared)                                *)
(***************************************************************************)
\* how often the reading pushed as number n occurs in the sequence q
Occurrences(q, n) == Cardinality({i \in DOMAIN q : q[i].sequence_number = n})

fault_kinds == {fault_kind(s) : s \in FSensors}
Injected ==
    {published[i].ev.fault_id :
        i \in {j \in DOMAIN published : published[j].ev.kind \in fault_kinds}}

\* the positions of published at which an Abort follows the fault id and
\* precedes the fault published next
AbortsOf(id) ==
    {i \in DOMAIN published :
        /\ published[i].ev.kind = "Abort"
        /\ \E j \in 1..(i - 1) :
              /\ published[j].ev.kind \in fault_kinds
              /\ published[j].ev.fault_id = id
              /\ \A k \in (j + 1)..(i - 1) : published[k].ev.kind \notin fault_kinds}

\* at most the last fault is outstanding; every other has its one row
OneCycleAtATime ==
    /\ Injected = 1..inj.which
    /\ \A id \in 1..inj.which :
          /\ Cardinality(RowsOf(id)) = (IF EpisodeClosed(id) THEN 1 ELSE 0)
          /\ Cardinality(AbortsOf(id)) <= Cardinality(RowsOf(id))
          /\ Cardinality(AbortsOf(id)) = 1 <=> \E i \in RowsOf(id) : recovery_log[i].aborted
    /\ Len(recovery_log) = (IF inj.pc = "tick" THEN inj.which ELSE inj.which - 1)
    /\ inj.pc = "wait" => ftime <= inj.started + RECOVERY_DEADLINE_MS

\* C39: every injected fault gets exactly one recovery row and at most one
\* Abort, both before the next fault is injected; at most one fault is
\* outstanding at any time, and every injection cycle ends, by the matching
\* ACK or at the 500 ms deadline, with the injector back at its ticker.
C39_OneRowPerFaultAndEveryCycleEnds ==
    /\ []OneCycleAtATime
    /\ \A id \in 1..MaxFaults :
          (inj.fault_id = id /\ inj.pc # "tick") ~> (inj.fault_id = id /\ inj.pc = "tick")

\* a second fault in flight after an episode that ended with its row and
\* an Abort, and one that ended with its row alone
C39_Witness ==
    /\ inj.which = 2 /\ inj.pc = "wait"
    /\ Len(recovery_log) = 1
    /\ Cardinality(AbortsOf(1)) = 1

(***************************************************************************)
(* The ingress channel not yet set (of SpecUnready)                        *)
(***************************************************************************)
\* C31: a cycle that finds CHANNEL unset sends nothing, advances seq by
\* exactly one and leaves the sensor at its ticker for the next cycle:
\* last_start is the start of the skipped cycle, and neither the miss
\* counter nor the emergency mailbox is touched.
C31_UnreadyChannelSkipsTheCycle ==
    fcyc.unready =>
        /\ ~fcyc.sent /\ ~fcyc.alert
        /\ fs[fcyc.s].seq = fcyc.seq + 1
        /\ fs[fcyc.s].last_start = fcyc.start
        /\ fs[fcyc.s].consecutive_misses = fcyc.misses_before
        /\ fs[fcyc.s].pc = "tick"
        /\ fs[fcyc.s].due > fcyc.start
        /\ fs[fcyc.s].wake >= fs[fcyc.s].due

\* the power sensor skipped its third cycle for want of the channel
C31_Witness ==
    /\ fcyc.unready /\ fcyc.s = "power" /\ fcyc.seq = 2
    /\ ~channel /\ emer = <<>>

(***************************************************************************)
(* The sentinel task index and the outcome rows (of SpecRM)                *)
(***************************************************************************)
\* C32: the scheduler never reads tasks[job.task_idx] with the sentinel
\* index usize::MAX, neither in the comparator of release_due nor in the
\* preemption check, so its loop is never ended by the panic of an index
\* out of bounds, whatever thermal signals arrive.
C32_SentinelNeverIndexesTheTaskTable == spc # "panicked"

\* C33: at a scheduling check a running periodic job is preempted only by
\* a head of the ready queue that is a thermal job or has a strictly
\* smaller rm_priority; a head of equal or larger rm_priority leaves it
\* running, and the job preempted goes back to the queue with its
\* preemptions counter one higher and nothing else changed.
C33_PreemptedOnlyByStrictlyHigherPriority ==
    (sev.checked /\ sev.running.task_idx \in TaskIdx /\ spc # "panicked") =>
        /\ sev.preempted # NoJob <=>
              /\ sev.next # NoJob
              /\ \/ IsThermal(sev.next)
                 \/ RmPrio(sev.next) < RmPrio(sev.running)
        /\ sev.preempted # NoJob =>
              /\ sev.preempted = [sev.running EXCEPT !.remaining_ms = @ - 1,
                                                     !.preemptions = @ + 1]
              /\ \E k \in 1..Len(sev.queue) : sev.queue[k] = sev.preempted
              /\ sev.dispatched # sev.preempted

\* both cases: a job preempted by a periodic job of smaller rm_priority
C33_Witness ==
    /\ sev.checked /\ sev.running.task_idx \in TaskIdx
    /\ sev.preempted # NoJob
    /\ ~IsThermal(sev.next)
    /\ RmPrio(sev.next) < RmPrio(sev.running)

\* the name and the relative deadline of the task of job j
NameOf(j) == IF IsThermal(j) THEN "thermal_control" ELSE TaskTable[j.task_idx].name
DeadlineOf(j) ==
    IF IsThermal(j) THEN Ms(THERMAL_DEADLINE_MS) ELSE Ms(TaskTable[j.task_idx].period_ms)

\* C34: the outcome row logged for a completed job carries the name and
\* the relative deadline of that job's task and the job's own sequence
\* number and preemption count, also when the job got the processor by
\* preempting the job picked at step 4. (The start delay, taken at step 4
\* like the name, is left out here: the row is already wrong without it.)
C34_RowDescribesTheCompletedJob ==
    sev.completed # NoJob =>
        /\ row.task = NameOf(sev.completed)
        /\ row.deadline_ms = DeadlineOf(sev.completed)
        /\ row.seq = sev.completed.seq
        /\ row.preemptions = sev.completed.preemptions

\* the jobs placed in the ready queue that have no outcome row yet: those
\* waiting in ready and the one that has the processor
Pending == SetOf(ready) \cup (IF job = NoJob THEN {} ELSE {job})

\* the scheduler loop still runs: it is at the top of the loop, in a
\* slice, or asleep in the idle path
LoopRuns == spc \in {"top", "run", "idle"}

\* C35: a job placed in the ready queue, by a periodic release or by a
\* thermal injection, is run by the scheduler loop until remaining_ms = 0
\* and then logged. For that the loop must still be running whenever a job
\* is pending: a job left pending by a loop that has ended is lost, which
\* a finite run shows. The job that completes is logged with its own seq
\* and, a periodic job being known by its task and seq, is pending no more.
C35_NoJobIsLeftPending ==
    /\ Pending # {} => LoopRuns
    /\ sev.completed # NoJob =>
          /\ sev.completed.remaining_ms = 0
          /\ row.seq = sev.completed.seq
          /\ \A p \in Pending :
                p.task_idx \in TaskIdx =>
                    p.task_idx # sev.completed.task_idx \/ p.seq # sev.completed.seq
====
